---- MODULE Spec2Model ----
(***************************************************************************)
(* Proculator: the freight-cost calculator of App.tsx (the useMemo that    *)
(* computes `result`), the zone data of data/logisticsData.ts and the      *)
(* handlers that feed it.                                                  *)
(*                                                                         *)
(* Numbers.  JavaScript numbers are modelled as exact decimals (the        *)
(* binary rounding error of IEEE doubles is not modelled):                 *)
(*   - weights typed by the user and minChargeableWeight: grams (1/1000 kg)*)
(*   - dimensions: hundredths of the active unit (cm or inch)              *)
(*   - chargeableWeight, volumetricWeight as reported: 1/100 kg            *)
(*   - amounts of the settings and reported line items: paise (1/100)      *)
(*   - per-kg rates: paise per kg;  percentages: tenths of a percent       *)
(*   - un-rounded amounts inside the calculation: naturals of arbitrary    *)
(*     size counting 1/10^7 of a currency unit                             *)
(* A value that may be NaN or null is <<>> (NaN, null) or <<v>>.           *)
(* Strings that the code inspects (state, city, pincode, typed numbers)    *)
(* are sequences of one-character strings.                                 *)
(***************************************************************************)
EXTENDS Integers, Sequences, FiniteSets, TLC

null == <<>>
NaN == <<>>
Some(x) == <<x>>
Num(n) == <<n>>
Val(o) == o[1]

Abs(n) == IF n < 0 THEN -n ELSE n

(***************************************************************************)
(* Natural numbers of arbitrary size: little-endian sequences of limbs in  *)
(* 0..Base-1 without leading zero limbs (so equal numbers are equal        *)
(* sequences).  They carry the exact products and sums of the calculation. *)
(***************************************************************************)
Base == 1000

RECURSIVE BigFromInt(_)
BigFromInt(n) == IF n = 0 THEN <<>> ELSE <<n % Base>> \o BigFromInt(n \div Base)

RECURSIVE BigToInt(_)
BigToInt(a) == IF a = <<>> THEN 0 ELSE a[1] + Base * BigToInt(Tail(a))

RECURSIVE BigMulCarry(_, _, _)
BigMulCarry(a, k, c) ==
  IF a = <<>> THEN BigFromInt(c)
  ELSE <<(a[1] * k + c) % Base>> \o BigMulCarry(Tail(a), k, (a[1] * k + c) \div Base)

BigMulSmall(a, k) == IF k = 0 THEN <<>> ELSE BigMulCarry(a, k, 0)

RECURSIVE BigAddCarry(_, _, _)
BigAddCarry(a, b, c) ==
  IF a = <<>> /\ b = <<>> THEN BigFromInt(c)
  ELSE IF a = <<>> THEN BigAddCarry(b, a, c)
  ELSE IF b = <<>>
       THEN <<(a[1] + c) % Base>> \o BigAddCarry(Tail(a), <<>>, (a[1] + c) \div Base)
       ELSE <<(a[1] + b[1] + c) % Base>>
              \o BigAddCarry(Tail(a), Tail(b), (a[1] + b[1] + c) \div Base)

BigAdd(a, b) == BigAddCarry(a, b, 0)

RECURSIVE BigDivIter(_, _, _, _, _)
BigDivIter(a, d, i, rem, q) ==
  IF i = 0 THEN [q |-> q, r |-> rem]
  ELSE BigDivIter(a, d, i - 1, (rem * Base + a[i]) % d,
                  IF q = <<>> /\ (rem * Base + a[i]) \div d = 0
                  THEN <<>>
                  ELSE <<(rem * Base + a[i]) \div d>> \o q)

\* floor(a / d) and a mod d, for 0 < d <= 2000000
BigDivMod(a, d) == BigDivIter(a, d, Len(a), 0, <<>>)
BigDiv(a, d) == BigDivMod(a, d).q

RECURSIVE BigCmp(_, _)
BigCmp(a, b) ==
  IF Len(a) # Len(b) THEN (IF Len(a) < Len(b) THEN -1 ELSE 1)
  ELSE IF a = <<>> THEN 0
  ELSE IF BigCmp(Tail(a), Tail(b)) # 0 THEN BigCmp(Tail(a), Tail(b))
  ELSE IF a[1] < b[1] THEN -1 ELSE IF a[1] > b[1] THEN 1 ELSE 0

BigLess(a, b) == BigCmp(a, b) < 0
BigMax(a, b) == IF BigLess(a, b) THEN b ELSE a

(***************************************************************************)
(* Strings: String.prototype.toLowerCase, trim, includes, startsWith and   *)
(* the global parseFloat, on sequences of characters.                      *)
(***************************************************************************)
LowerOf ==
  [A |-> "a", B |-> "b", C |-> "c", D |-> "d", E |-> "e", F |-> "f", G |-> "g", H |-> "h", I |-> "i", J |-> "j", K |-> "k", L |-> "l", M |-> "m", N |-> "n", O |-> "o", P |-> "p", Q |-> "q", R |-> "r", S |-> "s", T |-> "t", U |-> "u", V |-> "v", W |-> "w", X |-> "x", Y |-> "y", Z |-> "z"]

UpperChars == DOMAIN LowerOf
RECURSIVE toLowerCase(_)
toLowerCase(s) ==
  IF s = <<>> THEN <<>>
  ELSE <<IF s[1] \in UpperChars THEN LowerOf[s[1]] ELSE s[1]>> \o toLowerCase(Tail(s))

WhiteSpace == {" ", "\t", "\r", "\n"}

RECURSIVE trimStart(_)
trimStart(s) == IF s # <<>> /\ s[1] \in WhiteSpace THEN trimStart(Tail(s)) ELSE s

RECURSIVE trimEnd(_)
trimEnd(s) ==
  IF s # <<>> /\ s[Len(s)] \in WhiteSpace THEN trimEnd(SubSeq(s, 1, Len(s) - 1)) ELSE s

trim(s) == trimEnd(trimStart(s))

startsWith(s, p) == Len(p) <= Len(s) /\ SubSeq(s, 1, Len(p)) = p

includes(s, p) == \E i \in 0..(Len(s) - Len(p)) : SubSeq(s, i + 1, i + Len(p)) = p

DigitOf == [c \in {"0", "1", "2", "3", "4", "5", "6", "7", "8", "9"} |->
              CASE c = "0" -> 0 [] c = "1" -> 1 [] c = "2" -> 2 [] c = "3" -> 3
                [] c = "4" -> 4 [] c = "5" -> 5 [] c = "6" -> 6 [] c = "7" -> 7
                [] c = "8" -> 8 [] c = "9" -> 9]

DigitChars == DOMAIN DigitOf

\* number of digit characters of s from position i on
RECURSIVE DigitRun(_, _)
DigitRun(s, i) == IF i <= Len(s) /\ s[i] \in DigitChars THEN 1 + DigitRun(s, i + 1) ELSE 0

\* value of the n digits of s that start at position i
RECURSIVE DigitsValue(_, _, _)
DigitsValue(s, i, n) ==
  IF n = 0 THEN 0 ELSE DigitsValue(s, i, n - 1) * 10 + DigitOf[s[i + n - 1]]

\* first three decimals of the n fraction digits of s that start at i
Thousandths(s, i, n) ==
  IF n >= 3 THEN DigitsValue(s, i, 3)
  ELSE IF n = 2 THEN DigitsValue(s, i, 2) * 10
  ELSE IF n = 1 THEN DigitsValue(s, i, 1) * 100
  ELSE 0

\* parseFloat: the longest prefix [ws][sign]digits[.digits] of s, in
\* thousandths, or NaN when that prefix holds no digit.  Exponents and the
\* literal Infinity are not part of the inputs of this model, and the inputs
\* carry at most three decimals.
parseFloat(str) ==
  LET s == trimStart(str)
      signed == s # <<>> /\ s[1] \in {"+", "-"}
      start == IF signed THEN 2 ELSE 1
      nInt == DigitRun(s, start)
      dot == start + nInt
      hasDot == dot <= Len(s) /\ s[dot] = "."
      nFrac == IF hasDot THEN DigitRun(s, dot + 1) ELSE 0
      magnitude == DigitsValue(s, start, nInt) * 1000 + Thousandths(s, dot + 1, nFrac)
  IN IF nInt + nFrac = 0 THEN NaN
     ELSE Num(IF signed /\ s[1] = "-" THEN -magnitude ELSE magnitude)

(***************************************************************************)
(* data/logisticsData.ts                                                   *)
(***************************************************************************)
STATE_ZONE_MAP ==
  <<
    [key |-> <<"d", "e", "l", "h", "i">>, zone |-> "N1"],
    [key |-> <<"n", "e", "w", " ", "d", "e", "l", "h", "i">>, zone |-> "N1"],
    [key |-> <<"u", "t", "t", "a", "r", " ", "p", "r", "a", "d", "e", "s", "h">>, zone |-> "N1"],
    [key |-> <<"h", "a", "r", "y", "a", "n", "a">>, zone |-> "N1"],
    [key |-> <<"r", "a", "j", "a", "s", "t", "h", "a", "n">>, zone |-> "N1"],
    [key |-> <<"c", "h", "a", "n", "d", "i", "g", "a", "r", "h">>, zone |-> "N2"],
    [key |-> <<"p", "u", "n", "j", "a", "b">>, zone |-> "N2"],
    [key |-> <<"h", "i", "m", "a", "c", "h", "a", "l", " ", "p", "r", "a", "d", "e", "s", "h">>, zone |-> "N2"],
    [key |-> <<"u", "t", "t", "a", "r", "a", "k", "h", "a", "n", "d">>, zone |-> "N2"],
    [key |-> <<"j", "a", "m", "m", "u", " ", "&", " ", "k", "a", "s", "h", "m", "i", "r">>, zone |-> "N2"],
    [key |-> <<"j", "a", "m", "m", "u", " ", "a", "n", "d", " ", "k", "a", "s", "h", "m", "i", "r">>, zone |-> "N2"],
    [key |-> <<"l", "a", "d", "a", "k", "h">>, zone |-> "N2"],
    [key |-> <<"w", "e", "s", "t", " ", "b", "e", "n", "g", "a", "l">>, zone |-> "E"],
    [key |-> <<"o", "d", "i", "s", "h", "a">>, zone |-> "E"],
    [key |-> <<"b", "i", "h", "a", "r">>, zone |-> "E"],
    [key |-> <<"j", "h", "a", "r", "k", "h", "a", "n", "d">>, zone |-> "E"],
    [key |-> <<"c", "h", "h", "a", "t", "t", "i", "s", "g", "a", "r", "h">>, zone |-> "E"],
    [key |-> <<"a", "s", "s", "a", "m">>, zone |-> "NE"],
    [key |-> <<"m", "e", "g", "h", "a", "l", "a", "y", "a">>, zone |-> "NE"],
    [key |-> <<"t", "r", "i", "p", "u", "r", "a">>, zone |-> "NE"],
    [key |-> <<"a", "r", "u", "n", "a", "c", "h", "a", "l", " ", "p", "r", "a", "d", "e", "s", "h">>, zone |-> "NE"],
    [key |-> <<"m", "i", "z", "o", "r", "a", "m">>, zone |-> "NE"],
    [key |-> <<"m", "a", "n", "i", "p", "u", "r">>, zone |-> "NE"],
    [key |-> <<"n", "a", "g", "a", "l", "a", "n", "d">>, zone |-> "NE"],
    [key |-> <<"s", "i", "k", "k", "i", "m">>, zone |-> "NE"],
    [key |-> <<"g", "u", "j", "a", "r", "a", "t">>, zone |-> "W1"],
    [key |-> <<"d", "a", "m", "a", "n", " ", "&", " ", "d", "i", "u">>, zone |-> "W1"],
    [key |-> <<"d", "a", "m", "a", "n", " ", "a", "n", "d", " ", "d", "i", "u">>, zone |-> "W1"],
    [key |-> <<"d", "a", "d", "r", "a", " ", "&", " ", "n", "a", "g", "a", "r", " ", "h", "a", "v", "e", "l", "i">>, zone |-> "W1"],
    [key |-> <<"m", "a", "h", "a", "r", "a", "s", "h", "t", "r", "a">>, zone |-> "W2"],
    [key |-> <<"g", "o", "a">>, zone |-> "W2"],
    [key |-> <<"a", "n", "d", "h", "r", "a", " ", "p", "r", "a", "d", "e", "s", "h">>, zone |-> "S1"],
    [key |-> <<"t", "e", "l", "a", "n", "g", "a", "n", "a">>, zone |-> "S1"],
    [key |-> <<"k", "a", "r", "n", "a", "t", "a", "k", "a">>, zone |-> "S1"],
    [key |-> <<"t", "a", "m", "i", "l", " ", "n", "a", "d", "u">>, zone |-> "S1"],
    [key |-> <<"p", "u", "d", "u", "c", "h", "e", "r", "r", "y">>, zone |-> "S1"],
    [key |-> <<"k", "e", "r", "a", "l", "a">>, zone |-> "S2"],
    [key |-> <<"m", "a", "d", "h", "y", "a", " ", "p", "r", "a", "d", "e", "s", "h">>, zone |-> "Central"]
  >>

\* rates in paise per kg
ZONE_PRICE_MATRIX ==
  [
    N1 |-> [N1 |-> 750, N2 |-> 850, E |-> 1500, NE |-> 2050, W1 |-> 1100, W2 |-> 1250, S1 |-> 1350, S2 |-> 1450, Central |-> 1000],
    N2 |-> [N1 |-> 878, N2 |-> 1013, E |-> 1789, NE |-> 2396, W1 |-> 1451, W2 |-> 1451, S1 |-> 1593, S2 |-> 1688, Central |-> 1181],
    E |-> [N1 |-> 1114, N2 |-> 1283, E |-> 1114, NE |-> 1654, W1 |-> 1485, W2 |-> 1485, S1 |-> 1458, S2 |-> 1458, Central |-> 1451],
    NE |-> [N1 |-> 1586, N2 |-> 1721, E |-> 1283, NE |-> 1384, W1 |-> 1924, W2 |-> 1924, S1 |-> 1823, S2 |-> 1898, Central |-> 2093],
    W1 |-> [N1 |-> 1080, N2 |-> 1283, E |-> 1958, NE |-> 2700, W1 |-> 776, W2 |-> 776, S1 |-> 1283, S2 |-> 1283, Central |-> 979],
    W2 |-> [N1 |-> 1519, N2 |-> 1620, E |-> 2329, NE |-> 3071, W1 |-> 1114, W2 |-> 1114, S1 |-> 1553, S2 |-> 1553, Central |-> 1181],
    S1 |-> [N1 |-> 1856, N2 |-> 1958, E |-> 2160, NE |-> 2734, W1 |-> 1384, W2 |-> 1384, S1 |-> 918, S2 |-> 1013, Central |-> 1620],
    S2 |-> [N1 |-> 2194, N2 |-> 2329, E |-> 2464, NE |-> 2936, W1 |-> 1755, W2 |-> 1755, S1 |-> 1188, S2 |-> 1188, Central |-> 1958],
    Central |-> [N1 |-> 1181, N2 |-> 1283, E |-> 1586, NE |-> 2363, W1 |-> 1114, W2 |-> 1114, S1 |-> 1350, S2 |-> 1391, Central |-> 776]
  ]

ZoneMapHas(k) == \E i \in 1..Len(STATE_ZONE_MAP) : STATE_ZONE_MAP[i].key = k
ZoneMapAt(k) == STATE_ZONE_MAP[CHOOSE i \in 1..Len(STATE_ZONE_MAP) : STATE_ZONE_MAP[i].key = k].zone

\* STATE_ZONE_MAP and ZONE_PRICE_MATRIX are object literals, so a lookup by a
\* name they do not define falls through to Object.prototype.  The inherited
\* names a lower-cased state name can spell are constructor and __proto__;
\* value is the inherited value as a property key (its String coercion).
ObjectPrototype ==
  <<[key |-> <<"c", "o", "n", "s", "t", "r", "u", "c", "t", "o", "r">>, value |-> "function Object() { [native code] }"],
    [key |-> <<"_", "_", "p", "r", "o", "t", "o", "_", "_">>, value |-> "[object Object]"]>>

InheritedHas(k) == \E i \in 1..Len(ObjectPrototype) : ObjectPrototype[i].key = k
InheritedAt(k) == ObjectPrototype[CHOOSE i \in 1..Len(ObjectPrototype) : ObjectPrototype[i].key = k].value

\* getZone: null for the empty string; STATE_ZONE_MAP[normalized] || null
getZone(stateName) ==
  IF stateName = <<>> THEN null
  ELSE LET normalized == trim(toLowerCase(stateName))
       IN IF ZoneMapHas(normalized) THEN Some(ZoneMapAt(normalized))
          ELSE IF InheritedHas(normalized) THEN Some(InheritedAt(normalized))
          ELSE null

\* ZONE_PRICE_MATRIX[zoneFrom]?.[zoneTo] when the cell is an inherited value (a
\* function or an object, truthy and not a number), "" otherwise.  The row of
\* "constructor" is the function Object, the row of "__proto__" is
\* Object.prototype, whose own __proto__ is null.
InheritedRate(from, to) ==
  IF from \in DOMAIN ZONE_PRICE_MATRIX
  THEN IF to = "constructor" THEN "function Object() { [native code] }"
       ELSE IF to = "__proto__" THEN "[object Object]"
       ELSE ""
  ELSE IF from = "constructor"
  THEN IF to = "constructor" THEN "function Function() { [native code] }"
       ELSE IF to = "__proto__" THEN "function () { [native code] }"
       ELSE ""
  ELSE IF from = "__proto__"
  THEN IF to = "constructor" THEN "function Object() { [native code] }" ELSE ""
  ELSE ""

\* a slip: the table read as [zoneTo][zoneFrom]
RateOf_transposed(from, to) ==
  IF InheritedRate(to, from) # "" THEN InheritedRate(to, from)
  ELSE IF to \in DOMAIN ZONE_PRICE_MATRIX /\ from \in DOMAIN ZONE_PRICE_MATRIX[to]
  THEN ZONE_PRICE_MATRIX[to][from]
  ELSE 0

\* ZONE_PRICE_MATRIX[zoneFrom]?.[zoneTo] || 0: a rate in paise per kg, or the
\* inherited value
RateOf(from, to) ==
  IF InheritedRate(from, to) # "" THEN InheritedRate(from, to)
  ELSE IF from \in DOMAIN ZONE_PRICE_MATRIX /\ to \in DOMAIN ZONE_PRICE_MATRIX[from]
  THEN ZONE_PRICE_MATRIX[from][to]
  ELSE 0

(***************************************************************************)
(* SettingsModal.handleFileUpload, reader.onload: the CSV text of the      *)
(* serviceability table.  Indices are 1-based; 0 stands for findIndex's -1 *)
(* and null for an undefined cell.                                         *)
(***************************************************************************)
UpperOf ==
  [a |-> "A", b |-> "B", c |-> "C", d |-> "D", e |-> "E", f |-> "F", g |-> "G", h |-> "H", i |-> "I", j |-> "J", k |-> "K", l |-> "L", m |-> "M", n |-> "N", o |-> "O", p |-> "P", q |-> "Q", r |-> "R", s |-> "S", t |-> "T", u |-> "U", v |-> "V", w |-> "W", x |-> "X", y |-> "Y", z |-> "Z"]

RECURSIVE toUpperCase(_)
toUpperCase(s) ==
  IF s = <<>> THEN <<>>
  ELSE <<IF s[1] \in DOMAIN UpperOf THEN UpperOf[s[1]] ELSE s[1]>> \o toUpperCase(Tail(s))

\* s.split(sep) for a separator of one character
RECURSIVE split(_, _)
split(s, sep) ==
  IF \E i \in 1..Len(s) : s[i] = sep
  THEN LET i == CHOOSE j \in 1..Len(s) : s[j] = sep /\ \A k \in 1..(j - 1) : s[k] # sep
       IN <<SubSeq(s, 1, i - 1)>> \o split(SubSeq(s, i + 1, Len(s)), sep)
  ELSE <<s>>

\* one line without the carriage return that precedes its line feed
dropCarriageReturn(line) ==
  IF line # <<>> /\ line[Len(line)] = "\r" THEN SubSeq(line, 1, Len(line) - 1) ELSE line

\* text.split(/\r?\n/): the last piece has no line feed after it
splitLines(text) ==
  LET pieces == split(text, "\n")
  IN [i \in 1..Len(pieces) |->
        IF i < Len(pieces) THEN dropCarriageReturn(pieces[i]) ELSE pieces[i]]

\* s.replace(/['"]/g, '')
QuoteChars == {"'", "\""}

RECURSIVE removeQuotes(_)
removeQuotes(s) ==
  IF s = <<>> THEN <<>>
  ELSE (IF s[1] \in QuoteChars THEN <<>> ELSE <<s[1]>>) \o removeQuotes(Tail(s))

\* /^\d+$/.test(s)
allDigits(s) == s # <<>> /\ \A i \in 1..Len(s) : s[i] \in DigitChars

\* lines[0].split(',').map(h => h.trim().toUpperCase().replace(/['"]/g, ''))
headersOf(line) ==
  LET raw == split(line, ",")
  IN [i \in 1..Len(raw) |-> removeQuotes(toUpperCase(trim(raw[i])))]

\* lines[i].split(',').map(c => c.trim().replace(/['"]/g, ''))
cellsOf(line) ==
  LET raw == split(line, ",")
  IN [i \in 1..Len(raw) |-> removeQuotes(trim(raw[i]))]

\* headers.findIndex(h => every word of words is included in h)
findIndex(headers, words) ==
  IF \E i \in 1..Len(headers) : \A w \in words : includes(headers[i], w)
  THEN CHOOSE i \in 1..Len(headers) :
         /\ \A w \in words : includes(headers[i], w)
         /\ \A j \in 1..(i - 1) : ~(\A w \in words : includes(headers[j], w))
  ELSE 0

idxPin(headers) == findIndex(headers, {<<"P", "I", "N">>, <<"C", "O", "D", "E">>})
idxPickAvail(headers) == findIndex(headers, {<<"P", "I", "C", "K">>, <<"A", "V", "A", "I", "L", "A", "B", "L", "E">>})
idxDelAvail(headers) == findIndex(headers, {<<"D", "E", "L", "I", "V", "E", "R", "Y">>, <<"A", "V", "A", "I", "L", "A", "B", "L", "E">>})
idxZone(headers) == findIndex(headers, {<<"Z", "O", "N", "A", "L">>})
idxCity(headers) == findIndex(headers, {<<"C", "I", "T", "Y">>})
idxState(headers) == findIndex(headers, {<<"S", "T", "A", "T", "E">>})

\* cells[idx]; undefined is null
cellAt(cells, idx) == IF idx >= 1 /\ idx <= Len(cells) THEN Some(cells[idx]) ELSE null

\* idx !== -1 ? cells[idx]?.toUpperCase() : 'Y'
availabilityCell(cells, idx) ==
  IF idx = 0 THEN Some(<<"Y">>)
  ELSE IF cellAt(cells, idx) = null THEN null
  ELSE Some(toUpperCase(Val(cellAt(cells, idx))))

\* a slip: an absent column counts as not available
isAvailable_absentIsFalse(cells, idx) ==
  idx # 0 /\ availabilityCell(cells, idx) \in {Some(<<"Y">>), Some(<<"Y", "E", "S">>), Some(<<"T", "R", "U", "E">>)}

\* avail === 'Y' || avail === 'YES' || avail === 'TRUE'
isAvailable(cells, idx) ==
  availabilityCell(cells, idx) \in {Some(<<"Y">>), Some(<<"Y", "E", "S">>), Some(<<"T", "R", "U", "E">>)}

\* idx !== -1 ? cells[idx] : ''   (an undefined cell is read as '' by every use)
textCell(cells, idx) ==
  IF idx = 0 \/ cellAt(cells, idx) = null THEN <<>> ELSE Val(cellAt(cells, idx))

\* the zone codes that the calculation tells apart, spelled
ZoneCodeText ==
  [N1 |-> <<"N", "1">>, N2 |-> <<"N", "2">>, E |-> <<"E">>, NE |-> <<"N", "E">>, W1 |-> <<"W", "1">>,
   W2 |-> <<"W", "2">>, S1 |-> <<"S", "1">>, S2 |-> <<"S", "2">>, Central |-> <<"C", "e", "n", "t", "r", "a", "l">>,
   X9 |-> <<"X", "9">>, n1 |-> <<"n", "1">>,
   constructor |-> <<"c", "o", "n", "s", "t", "r", "u", "c", "t", "o", "r">>, __proto__ |-> <<"_", "_", "p", "r", "o", "t", "o", "_", "_">>]

\* the zone cell as a zone code; every other non-empty text is one code
\* without a row or column in ZONE_PRICE_MATRIX
zoneOfCell(cell) ==
  IF cell = <<>> THEN ""
  ELSE IF \E z \in DOMAIN ZoneCodeText : ZoneCodeText[z] = cell
  THEN CHOOSE z \in DOMAIN ZoneCodeText : ZoneCodeText[z] = cell
  ELSE "unlisted"

\* the row is skipped: !lines[i].trim(), or !pincode || !/^\d+$/.test(pincode)
rowSkipped(line, pin) ==
  \/ trim(line) = <<>>
  \/ cellAt(cellsOf(line), pin) = null
  \/ ~allDigits(Val(cellAt(cellsOf(line), pin)))

\* the ServiceabilityData of an accepted row
rowRecord(headers, cells) ==
  [pickupAvailable |-> isAvailable(cells, idxPickAvail(headers)),
   deliveryAvailable |-> isAvailable(cells, idxDelAvail(headers)),
   zone |-> zoneOfCell(textCell(cells, idxZone(headers))),
   city |-> textCell(cells, idxCity(headers)),
   state |-> textCell(cells, idxState(headers))]

\* the for loop over lines[i], i >= 1 (here from the 2nd element on): the map
\* and the count after the rows from i on
RECURSIVE ingestRows(_, _, _, _)
ingestRows(lines, i, map, count) ==
  IF i > Len(lines) THEN [map |-> map, count |-> count]
  ELSE IF rowSkipped(lines[i], idxPin(headersOf(lines[1])))
  THEN ingestRows(lines, i + 1, map, count)
  ELSE LET cells == cellsOf(lines[i])
           pincode == cells[idxPin(headersOf(lines[1]))]
       IN ingestRows(lines, i + 1,
                     (pincode :> rowRecord(headersOf(lines[1]), cells)) @@ map,
                     count + 1)

\* the try block of reader.onload: error when the header has no PIN CODE
\* column, otherwise the map and the count
parseCsv(text) ==
  LET lines == splitLines(text)
  IN IF idxPin(headersOf(lines[1])) = 0
     THEN [error |-> TRUE, map |-> <<>>, count |-> 0]
     ELSE LET done == ingestRows(lines, 2, <<>>, 0)
          IN [error |-> FALSE, map |-> done.map, count |-> done.count]

(***************************************************************************)
(* types.ts and the constants of App.tsx                                   *)
(***************************************************************************)
CM == "cm"
INCH == "inch"
DimensionUnit == {CM, INCH}

DimensionKeys == {"length", "breadth", "height"}

OptionKeys ==
  {"isCod", "isRov", "isCsd", "isMallDelivery", "isTimeSpecific", "isHoliday", "isReattempt"}

DEFAULT_SETTINGS ==
  [volumetricDivisor |-> 4500,
   minChargeableWeight |-> 20000,
   minFreightAmount |-> 35000,
   fuelSurchargePercent |-> 250,
   awbCharge |-> 10000,
   cftDensityMin |-> 7,
   odaPerKg |-> 800,
   odaMin |-> 100000,
   handling70to200 |-> 300,
   handlingAbove200 |-> 400,
   codPercent |-> 10,
   codMin |-> 5000,
   rovPercent |-> 5,
   rovMin |-> 10000,
   csdCharge |-> 100000,
   timeSpecificPerKg |-> 300,
   timeSpecificMin |-> 150000,
   mallDeliveryPerKg |-> 300,
   mallDeliveryMin |-> 50000,
   reattemptPerKg |-> 300,
   reattemptMin |-> 50000,
   regionalSurcharge |-> 500,
   serviceabilityMap |-> null]

DEFAULT_OPTIONS == [k \in OptionKeys |-> FALSE]

\* the flat holiday / Sunday delivery fee, in paise
HolidayCharge == 100000

(***************************************************************************)
(* The state of App                                                        *)
(***************************************************************************)
VARIABLES settings, pickup, drop, weight, invoiceValue, dimensions, dimUnit,
          options, showOdaPopup, odaAcknowledged,
          isSettingsOpen, localSettings, uploadStatus, recordCount, reads,
          debouncedPincode, timers

\* the state of the ODA popup
popupVars == <<showOdaPopup, odaAcknowledged>>

\* the state of SettingsModal: isOpen (App.isSettingsOpen), its own state, and
\* the texts of the files whose FileReader has not called onload yet
modalVars == <<isSettingsOpen, localSettings, uploadStatus, recordCount, reads>>

\* the two LocationInput components, by label
PICKUP == "Pickup"
DESTINATION == "Destination"
Labels == {PICKUP, DESTINATION}

\* the state of the LocationInput components: debouncedPincode, and the
\* pincodes captured by the debounce timers that are pending
lookupVars == <<debouncedPincode, timers>>

vars ==
  <<settings, pickup, drop, weight, invoiceValue, dimensions, dimUnit, options,
    popupVars, modalVars, lookupVars>>

(***************************************************************************)
(* Weights inside one calculation are exact fractions over the common      *)
(* denominator 10^15 * settings.volumetricDivisor: [neg, mag] stands for   *)
(* +-mag / WtDen kg.                                                       *)
(***************************************************************************)
Pow3(a, n) == BigMulSmall(BigMulSmall(BigMulSmall(a, n), n), n)

\* g / 1000 kg = g * 10^12 * volumetricDivisor / WtDen
WtOfGrams(g) ==
  [neg |-> g < 0,
   mag |-> BigMulSmall(Pow3(Pow3(BigFromInt(Abs(g)), 1000), 10),
                       settings.volumetricDivisor)]

WtLess(a, b) ==
  IF a.neg /\ ~b.neg THEN a.mag # <<>> \/ b.mag # <<>>
  ELSE IF ~a.neg /\ b.neg THEN FALSE
  ELSE IF a.neg THEN BigLess(b.mag, a.mag)
  ELSE BigLess(a.mag, b.mag)

\* Math.max of three numbers
MathMax3(a, b, c) ==
  LET ab == IF WtLess(a, b) THEN b ELSE a
  IN IF WtLess(ab, c) THEN c ELSE ab

\* a slip: the weight is truncated to two decimals instead of rounded
WtToFixed2_truncates(w) ==
  LET hundredths == BigToInt(BigDiv(BigDiv(BigDiv(BigDiv(BigDiv(BigDiv(
                      w.mag, 1000), 1000), 1000), 1000), 10),
                      settings.volumetricDivisor))
  IN IF w.neg THEN -hundredths ELSE hundredths

\* parseFloat(w.toFixed(2)) in 1/100 kg: round half away from zero
WtToFixed2(w) ==
  LET twice == BigDiv(BigDiv(BigDiv(BigDiv(BigDiv(BigDiv(
                 BigMulSmall(w.mag, 2), 1000), 1000), 1000), 1000), 10),
                 settings.volumetricDivisor)
      rounded == (BigToInt(twice) + 1) \div 2
  IN IF w.neg THEN -rounded ELSE rounded

(***************************************************************************)
(* Amounts inside one calculation: naturals counting 10^-7 currency units. *)
(***************************************************************************)
MoneyOfPaise(p) == BigMulSmall(BigFromInt(p), 100000)

\* the amount NaN: what arithmetic on a rate that is not a number yields
MoneyNaN == <<-1>>

\* perKg * chargeable, for a rate in paise per kg and a weight in 1/100 kg
TimesWeight(perKg, w) == BigMulSmall(BigMulSmall(BigFromInt(perKg), w), 1000)

\* m * (percent / 100), for a percentage in tenths of a percent
TimesPercent(m, tenths) == BigDiv(BigMulSmall(m, tenths), 1000)

\* value * (percent / 100), for a value in thousandths; every amount of the
\* model is non-negative, so a non-positive share never wins a Math.max and
\* is carried as zero
ValueTimesPercent(v, tenths) ==
  IF v <= 0 THEN <<>> ELSE BigMulSmall(BigMulSmall(BigFromInt(v), tenths), 10)

\* parseFloat(m.toFixed(2)), in paise
MoneyToFixed2(m) ==
  IF m = MoneyNaN THEN NaN
  ELSE (BigToInt(BigDiv(BigDiv(BigMulSmall(m, 2), 1000), 100)) + 1) \div 2

\* a slip: Math.floor in place of Math.round
MathRound_floor(m) == BigToInt(BigDiv(BigDiv(BigDiv(m, 1000), 1000), 10))

\* Math.round(m), in whole currency units
MathRound(m) ==
  IF m = MoneyNaN THEN NaN
  ELSE (BigToInt(BigDiv(BigDiv(BigDiv(BigMulSmall(m, 2), 1000), 1000), 10)) + 1) \div 2

(***************************************************************************)
(* App.result: the body of the useMemo, local by local.  The memo is a     *)
(* function of the state it depends on (all of the variables), so `result` *)
(* is a state function: its value in a state is what the render of that    *)
(* state computes.                                                         *)
(***************************************************************************)
\* settings.serviceabilityMap[pincode]; undefined is null
RecordAt(pincode) ==
  IF pincode \in DOMAIN Val(settings.serviceabilityMap)
  THEN Some(Val(settings.serviceabilityMap)[pincode])
  ELSE null

pickupData == RecordAt(pickup.pincode)
dropData == RecordAt(drop.pincode)

zoneFrom ==
  IF settings.serviceabilityMap # null /\ pickupData # null /\ Val(pickupData).zone # ""
  THEN Some(Val(pickupData).zone)
  ELSE getZone(pickup.state)

zoneTo ==
  IF settings.serviceabilityMap # null /\ dropData # null /\ Val(dropData).zone # ""
  THEN Some(Val(dropData).zone)
  ELSE getZone(drop.state)

\* a slip: a map without keys counts as no map
pickupOda_emptyMapIsNoMap ==
  /\ settings.serviceabilityMap # null
  /\ DOMAIN Val(settings.serviceabilityMap) # {}
  /\ (IF pickupData = null THEN TRUE ELSE ~Val(pickupData).pickupAvailable)

pickupOda ==
  /\ settings.serviceabilityMap # null
  /\ (IF pickupData = null THEN TRUE ELSE ~Val(pickupData).pickupAvailable)

\* a slip: the drop leg tested on the record's pickup flag
deliveryOda_usesPickupFlag ==
  /\ settings.serviceabilityMap # null
  /\ (IF dropData = null THEN TRUE ELSE ~Val(dropData).pickupAvailable)

deliveryOda ==
  /\ settings.serviceabilityMap # null
  /\ (IF dropData = null THEN TRUE ELSE ~Val(dropData).deliveryAvailable)

isOda == pickupOda \/ deliveryOda

\* a slip: 1 in place of 0 as the fallback
NumberOrZero_defaultsToOne(text) ==
  IF parseFloat(text) = NaN THEN 1000 ELSE Val(parseFloat(text))

\* parseFloat(text) || 0, in thousandths
NumberOrZero(text) == IF parseFloat(text) = NaN THEN 0 ELSE Val(parseFloat(text))

deadWt == NumberOrZero(weight)
invValue == NumberOrZero(invoiceValue)

\* L * B * H after the inch conversion: NaN, or a sign and a magnitude in
\* 10^-15 cubic centimetres
DimValues == <<dimensions.length, dimensions.breadth, dimensions.height>>

volumeIsNaN == \E i \in 1..3 : DimValues[i] = NaN

Sign(n) == IF n < 0 THEN -1 ELSE IF n > 0 THEN 1 ELSE 0

volumeSign ==
  Sign(Val(DimValues[1])) * Sign(Val(DimValues[2])) * Sign(Val(DimValues[3]))

volumeMag ==
  LET lbh == BigMulSmall(BigMulSmall(BigFromInt(Abs(Val(DimValues[1]))),
                                     Abs(Val(DimValues[2]))),
                         Abs(Val(DimValues[3])))
  IN IF dimUnit = INCH THEN Pow3(lbh, 254) ELSE Pow3(lbh, 100)

\* volume > 0 ? volume / settings.volumetricDivisor : 0
volumetricWt ==
  IF ~volumeIsNaN /\ volumeSign > 0
  THEN [neg |-> FALSE, mag |-> volumeMag]
  ELSE [neg |-> FALSE, mag |-> <<>>]

\* a slip: a two-way maximum that leaves out the minimum chargeable weight
chargeable_ignoresMinimum ==
  WtToFixed2(MathMax3(WtOfGrams(deadWt), volumetricWt, volumetricWt))

chargeable ==
  WtToFixed2(MathMax3(WtOfGrams(deadWt), volumetricWt,
                      WtOfGrams(settings.minChargeableWeight)))

rate == RateOf(Val(zoneFrom), Val(zoneTo))

\* typeof rate === 'number'
rateIsNumber == InheritedRate(Val(zoneFrom), Val(zoneTo)) = ""

\* a slip: the comparison reversed, so that the minimum caps the freight
FreightFor_clampsDown(perKg, w) ==
  IF BigLess(MoneyOfPaise(settings.minFreightAmount), TimesWeight(perKg, w))
  THEN MoneyOfPaise(settings.minFreightAmount)
  ELSE TimesWeight(perKg, w)

\* let basicFreight = rate * chargeable; if (basicFreight < min) basicFreight = min
FreightFor(perKg, w) ==
  IF BigLess(TimesWeight(perKg, w), MoneyOfPaise(settings.minFreightAmount))
  THEN MoneyOfPaise(settings.minFreightAmount)
  ELSE TimesWeight(perKg, w)

\* rate * chargeable is NaN for a rate that is not a number, and NaN < min is
\* false
basicFreight == IF rateIsNumber THEN FreightFor(rate, chargeable) ELSE MoneyNaN

\* a slip: the surcharge taken on rate * chargeable, before the minimum freight
fuelSurcharge_onProduct ==
  IF basicFreight = MoneyNaN THEN MoneyNaN
  ELSE TimesPercent(TimesWeight(rate, chargeable), settings.fuelSurchargePercent)

fuelSurcharge ==
  LET freight == basicFreight
  IN IF freight = MoneyNaN THEN MoneyNaN
     ELSE TimesPercent(freight, settings.fuelSurchargePercent)

\* a slip: the per-kg surcharge without its minimum
odaCharge_perKgOnly ==
  IF isOda THEN TimesWeight(settings.odaPerKg, chargeable) ELSE <<>>

odaCharge ==
  IF isOda
  THEN BigMax(MoneyOfPaise(settings.odaMin), TimesWeight(settings.odaPerKg, chargeable))
  ELSE <<>>

\* a slip: 200.00 kg put in the upper band
handlingCharge_upperBandFrom200 ==
  IF chargeable >= 7100 /\ chargeable < 20000
  THEN TimesWeight(settings.handling70to200, chargeable)
  ELSE IF chargeable >= 20000
  THEN TimesWeight(settings.handlingAbove200, chargeable)
  ELSE <<>>

handlingCharge ==
  IF chargeable >= 7100 /\ chargeable <= 20000
  THEN TimesWeight(settings.handling70to200, chargeable)
  ELSE IF chargeable > 20000
  THEN TimesWeight(settings.handlingAbove200, chargeable)
  ELSE <<>>

\* a slip: the city compared without toLowerCase
isGuwahati_caseSensitive ==
  \/ includes(drop.city, <<"g", "u", "w", "a", "h", "a", "t", "i">>)
  \/ startsWith(drop.pincode, <<"7", "8", "1">>)

isGuwahati ==
  \/ includes(toLowerCase(drop.city), <<"g", "u", "w", "a", "h", "a", "t", "i">>)
  \/ startsWith(drop.pincode, <<"7", "8", "1">>)

destStateLower == toLowerCase(drop.state)

RegionalStates ==
  {<<"j", "a", "m", "m", "u", " ", "&", " ", "k", "a", "s", "h", "m", "i", "r">>,
   <<"h", "i", "m", "a", "c", "h", "a", "l", " ", "p", "r", "a", "d", "e", "s", "h">>,
   <<"j", "a", "m", "m", "u", " ", "a", "n", "d", " ", "k", "a", "s", "h", "m", "i", "r">>}

isRegionalZone ==
  \/ destStateLower \in RegionalStates
  \/ (getZone(destStateLower) = Some("NE") /\ ~isGuwahati)

regionalCharge ==
  IF isRegionalZone THEN TimesWeight(settings.regionalSurcharge, chargeable) ELSE <<>>

MinOrPerKg(min, perKg) == BigMax(MoneyOfPaise(min), TimesWeight(perKg, chargeable))

\* a slip: mall delivery and re-attempt coded as alternatives (else if)
otherSurcharges_mallOrReattempt ==
  LET holiday == IF options.isHoliday THEN MoneyOfPaise(HolidayCharge) ELSE <<>>
      csd == IF options.isCsd THEN MoneyOfPaise(settings.csdCharge) ELSE <<>>
      timeSpecific == IF options.isTimeSpecific
                      THEN MinOrPerKg(settings.timeSpecificMin, settings.timeSpecificPerKg)
                      ELSE <<>>
      mallOrReattempt ==
        IF options.isMallDelivery
        THEN MinOrPerKg(settings.mallDeliveryMin, settings.mallDeliveryPerKg)
        ELSE IF options.isReattempt
        THEN MinOrPerKg(settings.reattemptMin, settings.reattemptPerKg)
        ELSE <<>>
  IN BigAdd(BigAdd(BigAdd(holiday, csd), timeSpecific), mallOrReattempt)

otherSurcharges ==
  LET holiday == IF options.isHoliday THEN MoneyOfPaise(HolidayCharge) ELSE <<>>
      csd == IF options.isCsd THEN MoneyOfPaise(settings.csdCharge) ELSE <<>>
      timeSpecific == IF options.isTimeSpecific
                      THEN MinOrPerKg(settings.timeSpecificMin, settings.timeSpecificPerKg)
                      ELSE <<>>
      mall == IF options.isMallDelivery
              THEN MinOrPerKg(settings.mallDeliveryMin, settings.mallDeliveryPerKg)
              ELSE <<>>
      reattempt == IF options.isReattempt
                   THEN MinOrPerKg(settings.reattemptMin, settings.reattemptPerKg)
                   ELSE <<>>
  IN BigAdd(BigAdd(BigAdd(BigAdd(holiday, csd), timeSpecific), mall), reattempt)

codCharge ==
  IF options.isCod
  THEN BigMax(MoneyOfPaise(settings.codMin), ValueTimesPercent(invValue, settings.codPercent))
  ELSE <<>>

\* a slip: the risk cover computed with the COD percentage
rovCharge_usesCodPercent ==
  IF options.isRov
  THEN BigMax(MoneyOfPaise(settings.rovMin), ValueTimesPercent(invValue, settings.codPercent))
  ELSE <<>>

rovCharge ==
  IF options.isRov
  THEN BigMax(MoneyOfPaise(settings.rovMin), ValueTimesPercent(invValue, settings.rovPercent))
  ELSE <<>>

awb == settings.awbCharge

\* a slip: the total summed from the line items as they are reported
totalCost_ofReportedItems ==
  LET freight == basicFreight
  IN IF freight = MoneyNaN THEN MoneyNaN
     ELSE MoneyOfPaise(
            MoneyToFixed2(freight) + MoneyToFixed2(fuelSurcharge) + awb
              + MoneyToFixed2(odaCharge) + MoneyToFixed2(handlingCharge)
              + MoneyToFixed2(regionalCharge) + MoneyToFixed2(otherSurcharges)
              + MoneyToFixed2(codCharge) + MoneyToFixed2(rovCharge))

totalCost ==
  LET freight == basicFreight
  IN IF freight = MoneyNaN THEN MoneyNaN
     ELSE BigAdd(BigAdd(BigAdd(BigAdd(BigAdd(BigAdd(BigAdd(BigAdd(
            freight, fuelSurcharge), MoneyOfPaise(awb)), odaCharge), handlingCharge),
            regionalCharge), otherSurcharges), codCharge), rovCharge)

\* the value of the useMemo: null on an early return, else the record
result ==
  IF pickup.state = <<>> \/ drop.state = <<>> THEN null
  ELSE IF zoneFrom = null \/ zoneTo = null THEN null
  ELSE Some([volumetricWeight |-> WtToFixed2(volumetricWt),
             deadWeight |-> deadWt,
             chargeableWeight |-> chargeable,
             zoneFrom |-> Val(zoneFrom),
             zoneTo |-> Val(zoneTo),
             baseRate |-> rate,
             freightCharge |-> MoneyToFixed2(basicFreight),
             fuelSurcharge |-> MoneyToFixed2(fuelSurcharge),
             awbCharge |-> awb,
             odaCharge |-> MoneyToFixed2(odaCharge),
             handlingCharge |-> MoneyToFixed2(handlingCharge),
             regionalCharge |-> MoneyToFixed2(regionalCharge),
             otherSurcharges |-> MoneyToFixed2(otherSurcharges),
             codCharge |-> MoneyToFixed2(codCharge),
             rovCharge |-> MoneyToFixed2(rovCharge),
             totalCost |-> MathRound(totalCost),
             isOda |-> isOda,
             pickupOda |-> pickupOda,
             deliveryOda |-> deliveryOda,
             warnings |-> <<>>])

(***************************************************************************)
(* Handlers                                                                *)
(***************************************************************************)
Init ==
  /\ settings = DEFAULT_SETTINGS
  /\ pickup = [pincode |-> <<>>, city |-> <<>>, state |-> <<>>, loading |-> FALSE]
  /\ drop = [pincode |-> <<>>, city |-> <<>>, state |-> <<>>, loading |-> FALSE]
  /\ weight = <<>>
  /\ invoiceValue = <<>>
  /\ dimensions = [length |-> Num(0), breadth |-> Num(0), height |-> Num(0)]
  /\ dimUnit = CM
  /\ options = DEFAULT_OPTIONS
  /\ showOdaPopup = FALSE
  /\ odaAcknowledged = FALSE
  /\ isSettingsOpen = FALSE
  /\ localSettings = DEFAULT_SETTINGS
  /\ uploadStatus = "idle"
  /\ recordCount = 0
  /\ reads = {}
  /\ debouncedPincode = [label \in Labels |-> <<>>]
  /\ timers = [label \in Labels |-> {<<>>}]

\* the effect on [pickup.pincode, drop.pincode]: it runs after the render in
\* which one of the two pincodes changed
resetOdaPopup(pincodeChanged) ==
  IF pincodeChanged
  THEN showOdaPopup' = FALSE /\ odaAcknowledged' = FALSE
  ELSE UNCHANGED popupVars

\* a slip: the cleanup of the debounce effect does not clear the timer
restartedTimers_withoutCleanup(label, before, after) ==
  IF after # before THEN [timers EXCEPT ![label] = @ \cup {after}] ELSE timers

\* the debounce effect of a LocationInput on [value.pincode]: when the pincode
\* changed, the cleanup clears the pending timer and a new timer captures the
\* new pincode
restartedTimers(label, before, after) ==
  IF after # before THEN [timers EXCEPT ![label] = {after}] ELSE timers

\* LocationInput onChange = setPickup
setPickup(Locations) ==
  \E data \in Locations :
    /\ pickup' = data
    /\ resetOdaPopup(data.pincode # pickup.pincode)
    /\ timers' = restartedTimers(PICKUP, pickup.pincode, data.pincode)
    /\ UNCHANGED <<settings, drop, weight, invoiceValue, dimensions, dimUnit, options,
                   modalVars, debouncedPincode>>

\* LocationInput onChange = setDrop
setDrop(Locations) ==
  \E data \in Locations :
    /\ drop' = data
    /\ resetOdaPopup(data.pincode # drop.pincode)
    /\ timers' = restartedTimers(DESTINATION, drop.pincode, data.pincode)
    /\ UNCHANGED <<settings, pickup, weight, invoiceValue, dimensions, dimUnit, options,
                   modalVars, debouncedPincode>>

\* the value prop of a LocationInput
valueOf(label) == IF label = PICKUP THEN pickup ELSE drop

\* the pincode input of a LocationInput:
\* onChange({...value, pincode: e.target.value, city: '', state: ''})
editPincode(label, Texts) ==
  \E text \in Texts :
    /\ text # valueOf(label).pincode
    /\ LET data == [valueOf(label) EXCEPT !.pincode = text, !.city = <<>>, !.state = <<>>]
       IN IF label = PICKUP THEN setPickup({data}) ELSE setDrop({data})

\* handleLookup(pincode), called with valueRef.current = value and the
\* serviceabilityMap prop = map: the data passed to onChange, or value when
\* it returns early
handleLookup(value, pincode, map) ==
  IF Len(pincode) < 3 THEN value
  ELSE IF map # null /\ pincode \in DOMAIN Val(map)
  THEN [value EXCEPT !.loading = FALSE,
                     !.city = Val(map)[pincode].city,
                     !.state = Val(map)[pincode].state]
  ELSE [value EXCEPT !.loading = FALSE]

\* the lookup effect of a LocationInput on [debouncedPincode,
\* serviceabilityMap]: the value after it ran
afterLookupEffect(value, debounced, map) ==
  IF debounced # <<>> /\ (value.city = <<>> \/ value.pincode # debounced)
  THEN handleLookup(value, debounced, map)
  ELSE value

\* the serviceabilityMap prop of the LocationInput components
serviceabilityMapProp(saved) == saved.serviceabilityMap

\* the lookup effects of both inputs after a render in which the saved
\* settings became saved: they run when the serviceabilityMap prop changed
lookupOnMapChange(saved) ==
  IF serviceabilityMapProp(saved) # serviceabilityMapProp(settings)
  THEN /\ pickup' = afterLookupEffect(pickup, debouncedPincode[PICKUP],
                                      serviceabilityMapProp(saved))
       /\ drop' = afterLookupEffect(drop, debouncedPincode[DESTINATION],
                                    serviceabilityMapProp(saved))
  ELSE UNCHANGED <<pickup, drop>>

\* the callback of a pending debounce timer, setDebouncedPincode(pincode), and
\* the lookup effect that runs when debouncedPincode changed
timerFires(label) ==
  \E pincode \in timers[label] :
    /\ timers' = [timers EXCEPT ![label] = @ \ {pincode}]
    /\ debouncedPincode' = [debouncedPincode EXCEPT ![label] = pincode]
    /\ LET after == IF pincode # debouncedPincode[label]
                    THEN afterLookupEffect(valueOf(label), pincode,
                                           serviceabilityMapProp(settings))
                    ELSE valueOf(label)
       IN IF label = PICKUP
          THEN pickup' = after /\ UNCHANGED drop
          ELSE drop' = after /\ UNCHANGED pickup
    /\ UNCHANGED <<settings, weight, invoiceValue, dimensions, dimUnit, options,
                   popupVars, modalVars>>

\* the Dead Weight input
setWeight(Texts) ==
  \E text \in Texts :
    /\ weight' = text
    /\ UNCHANGED <<settings, pickup, drop, invoiceValue, dimensions, dimUnit, options, popupVars, modalVars, lookupVars>>

\* the Invoice Value input
setInvoiceValue(Texts) ==
  \E text \in Texts :
    /\ invoiceValue' = text
    /\ UNCHANGED <<settings, pickup, drop, weight, dimensions, dimUnit, options, popupVars, modalVars, lookupVars>>

\* the L, B, H inputs: setDimensions({...dimensions, [k]: parseFloat(text)})
setDimensions(Texts) ==
  \E k \in DimensionKeys, text \in Texts :
    /\ dimensions' = [dimensions EXCEPT ![k] = parseFloat(text)]
    /\ UNCHANGED <<settings, pickup, drop, weight, invoiceValue, dimUnit, options, popupVars, modalVars, lookupVars>>

\* convert of handleUnitChange: parseFloat((val * factor).toFixed(2)), with
\* factor 2.54 (to cm) or 1 / 2.54 (to inch), on thousandths
convert(val, toCm) ==
  IF val = NaN \/ Val(val) = 0 THEN Num(0)
  ELSE LET twice == IF toCm THEN (2 * Abs(Val(val)) * 254) \div 1000
                            ELSE (2 * Abs(Val(val)) * 10) \div 254
           hundredths == (twice + 1) \div 2
       IN Num(Sign(Val(val)) * hundredths * 10)

handleUnitChange ==
  \E newUnit \in DimensionUnit :
    /\ newUnit # dimUnit
    /\ dimensions' = [length |-> convert(dimensions.length, newUnit = CM),
                      breadth |-> convert(dimensions.breadth, newUnit = CM),
                      height |-> convert(dimensions.height, newUnit = CM)]
    /\ dimUnit' = newUnit
    /\ UNCHANGED <<settings, pickup, drop, weight, invoiceValue, options, popupVars, modalVars, lookupVars>>

toggleOption(Keys) ==
  \E key \in Keys :
    /\ options' = [options EXCEPT ![key] = ~options[key]]
    /\ UNCHANGED <<settings, pickup, drop, weight, invoiceValue, dimensions, dimUnit, popupVars, modalVars, lookupVars>>

\* Object.keys(map).length, 0 without a map
keyCount(map) == IF map # null THEN Cardinality(DOMAIN Val(map)) ELSE 0

\* a slip: the effect depends on [settings] only
syncLocalSettings_onSettingsOnly(saved) ==
  IF saved # settings
  THEN /\ localSettings' = saved
       /\ recordCount' = keyCount(saved.serviceabilityMap)
       /\ uploadStatus' = "idle"
  ELSE UNCHANGED <<localSettings, recordCount, uploadStatus>>

\* the effect of SettingsModal on [settings, isOpen], run after the render in
\* which the saved settings or isOpen changed; saved is the settings prop
syncLocalSettings(saved) ==
  /\ localSettings' = saved
  /\ recordCount' = keyCount(saved.serviceabilityMap)
  /\ uploadStatus' = "idle"

\* SettingsModal onSave = setSettings
setSettings(Saved) ==
  \E s \in Saved :
    /\ settings' = s
    /\ syncLocalSettings(s)
    /\ lookupOnMapChange(s)
    /\ UNCHANGED <<weight, invoiceValue, dimensions, dimUnit, options,
                   popupVars, isSettingsOpen, reads, lookupVars>>

\* the Settings buttons: setIsSettingsOpen(true)
openSettings ==
  /\ ~isSettingsOpen
  /\ isSettingsOpen' = TRUE
  /\ syncLocalSettings(settings)
  /\ UNCHANGED <<settings, pickup, drop, weight, invoiceValue, dimensions, dimUnit,
                 options, popupVars, reads, lookupVars>>

\* SettingsModal onClose (Cancel, the close button): setIsSettingsOpen(false)
closeSettings ==
  /\ isSettingsOpen
  /\ isSettingsOpen' = FALSE
  /\ syncLocalSettings(settings)
  /\ UNCHANGED <<settings, pickup, drop, weight, invoiceValue, dimensions, dimUnit,
                 options, popupVars, reads, lookupVars>>

\* thousandths per unit of a numeric setting
SettingScale ==
  [volumetricDivisor |-> 1000, minChargeableWeight |-> 1, minFreightAmount |-> 10,
   awbCharge |-> 10, fuelSurchargePercent |-> 100, regionalSurcharge |-> 10,
   odaPerKg |-> 10, odaMin |-> 10, handling70to200 |-> 10, handlingAbove200 |-> 10,
   codPercent |-> 100, codMin |-> 10, rovPercent |-> 100, rovMin |-> 10,
   csdCharge |-> 10, mallDeliveryMin |-> 10, timeSpecificMin |-> 10,
   reattemptMin |-> 10]

\* SettingsModal.handleChange: [name]: parseFloat(value) || 0
handleChange(Names, Texts) ==
  \E name \in Names, value \in Texts :
    /\ isSettingsOpen
    /\ localSettings' =
         [localSettings EXCEPT ![name] = NumberOrZero(value) \div SettingScale[name]]
    /\ UNCHANGED <<settings, pickup, drop, weight, invoiceValue, dimensions, dimUnit,
                   options, popupVars, isSettingsOpen, uploadStatus, recordCount, reads, lookupVars>>

\* SettingsModal.handleClearData: the Remove Data button, rendered while
\* recordCount > 0
handleClearData ==
  /\ isSettingsOpen
  /\ recordCount > 0
  /\ localSettings' = [localSettings EXCEPT !.serviceabilityMap = null]
  /\ recordCount' = 0
  /\ uploadStatus' = "idle"
  /\ UNCHANGED <<settings, pickup, drop, weight, invoiceValue, dimensions, dimUnit,
                 options, popupVars, isSettingsOpen, reads, lookupVars>>

\* SettingsModal.handleFileUpload up to reader.readAsText(file): the file
\* input (upload or Replace File) changed to a file with this text
handleFileUpload(Texts) ==
  \E text \in Texts :
    /\ isSettingsOpen
    /\ uploadStatus' = "processing"
    /\ reads' = reads \cup {text}
    /\ UNCHANGED <<settings, pickup, drop, weight, invoiceValue, dimensions, dimUnit,
                   options, popupVars, isSettingsOpen, localSettings, recordCount, lookupVars>>

\* reader.onload of one pending read; the component stays mounted while the
\* modal is closed
readerOnload ==
  \E text \in reads :
    /\ reads' = reads \ {text}
    /\ IF parseCsv(text).error
       THEN /\ uploadStatus' = "error"
            /\ UNCHANGED <<localSettings, recordCount>>
       ELSE /\ localSettings' =
                 [localSettings EXCEPT !.serviceabilityMap = Some(parseCsv(text).map)]
            /\ recordCount' = parseCsv(text).count
            /\ uploadStatus' = "success"
    /\ UNCHANGED <<settings, pickup, drop, weight, invoiceValue, dimensions, dimUnit,
                   options, popupVars, isSettingsOpen, lookupVars>>

\* the data tab shows "Error parsing CSV. Check format.": the status texts are
\* rendered in the branch of recordCount = 0 only
errorShown ==
  /\ isSettingsOpen
  /\ ~(recordCount > 0)
  /\ uploadStatus = "error"

\* SettingsModal.handleSubmit (Save): onSave(localSettings); onClose()
handleSubmit ==
  /\ isSettingsOpen
  /\ settings' = localSettings
  /\ isSettingsOpen' = FALSE
  /\ syncLocalSettings(localSettings)
  /\ lookupOnMapChange(localSettings)
  /\ UNCHANGED <<weight, invoiceValue, dimensions, dimUnit, options,
                 popupVars, reads, lookupVars>>

\* a slip: the acknowledgement is not consulted
odaPopupDue_ignoresAcknowledged ==
  /\ result # null /\ isOda
  /\ ~showOdaPopup
  /\ Len(pickup.pincode) >= 6 /\ Len(drop.pincode) >= 6

\* the condition of the Trigger ODA Popup effect
odaPopupDue ==
  /\ result # null /\ isOda
  /\ ~odaAcknowledged
  /\ ~showOdaPopup
  /\ Len(pickup.pincode) >= 6 /\ Len(drop.pincode) >= 6

\* the Trigger ODA Popup effect, run after the render that changed one of
\* [result?.isOda, odaAcknowledged, showOdaPopup, pickup.pincode, drop.pincode]
odaPopupEffect ==
  /\ odaPopupDue
  /\ showOdaPopup' = TRUE
  /\ UNCHANGED <<settings, pickup, drop, weight, invoiceValue, dimensions, dimUnit,
                 options, odaAcknowledged, modalVars, lookupVars>>

\* OdaWarningModal onClose ("OK, I Understand"); the modal is rendered while
\* showOdaPopup is true
closeOdaPopup ==
  /\ showOdaPopup
  /\ showOdaPopup' = FALSE
  /\ odaAcknowledged' = TRUE
  /\ UNCHANGED <<settings, pickup, drop, weight, invoiceValue, dimensions, dimUnit,
                 options, modalVars, lookupVars>>

(***************************************************************************)
(* Inputs                                                                  *)
(***************************************************************************)
Location(pincode, city, state) ==
  [pincode |-> pincode, city |-> city, state |-> state, loading |-> FALSE]

LocDelhi == Location(<<"1", "1", "0", "0", "0", "1">>, <<"N", "e", "w", " ", "D", "e", "l", "h", "i">>, <<"D", "e", "l", "h", "i">>)
LocMumbai == Location(<<"4", "0", "0", "0", "0", "1">>, <<"M", "u", "m", "b", "a", "i">>, <<"M", "a", "h", "a", "r", "a", "s", "h", "t", "r", "a">>)

(***************************************************************************)
(* SpecWeight: the weight inputs of one lane (Delhi to Maharashtra)        *)
(***************************************************************************)
WeightTexts ==
  {<<>>, <<"-", "5">>, <<"1", "5">>, <<"2", "0", ".", "0", "0", "4">>, <<"3", "0", ".", "1", "2", "5">>}

DimensionTexts ==
  {<<>>, <<"-", "3", "0">>, <<"4", "0">>}

WeightSettings ==
  {DEFAULT_SETTINGS,
   [DEFAULT_SETTINGS EXCEPT !.volumetricDivisor = 5000, !.minChargeableWeight = 10004]}

NextWeight ==
  \/ setPickup({LocDelhi})
  \/ setDrop({LocMumbai})
  \/ setWeight(WeightTexts)
  \/ setDimensions(DimensionTexts)
  \/ handleUnitChange
  \/ setSettings(WeightSettings)

SpecWeight == Init /\ [][NextWeight]_vars


(***************************************************************************)
(* SpecCharges: the charges of a few lanes, with and without a loaded      *)
(* serviceability map                                                      *)
(***************************************************************************)
Record(pickupAvailable, deliveryAvailable, zone, city, state) ==
  [pickupAvailable |-> pickupAvailable, deliveryAvailable |-> deliveryAvailable,
   zone |-> zone, city |-> city, state |-> state]

LocChandigarh == Location(<<"1", "6", "0", "0", "1", "7">>, <<"C", "h", "a", "n", "d", "i", "g", "a", "r", "h">>, <<"C", "h", "a", "n", "d", "i", "g", "a", "r", "h">>)

\* Delhi is served; Chandigarh and Mumbai have no record
LaneMap ==
  (<<"1", "1", "0", "0", "0", "1">> :> Record(TRUE, TRUE, "", <<"N", "e", "w", " ", "D", "e", "l", "h", "i">>, <<"D", "e", "l", "h", "i">>))

ChargeSettings ==
  {DEFAULT_SETTINGS,
   [DEFAULT_SETTINGS EXCEPT !.serviceabilityMap = Some(LaneMap)],
   [DEFAULT_SETTINGS EXCEPT !.minChargeableWeight = 71000]}

ChargeWeightTexts ==
  {<<>>, <<"2", "5">>, <<"7", "0">>, <<"7", "0", ".", "5">>, <<"7", "1">>, <<"7", "2", ".", "5", "1">>, <<"2", "0", "0">>, <<"2", "0", "0", ".", "0", "1">>}

InvoiceTexts == {<<>>, <<"2", "0", "0", "0", "0">>, <<"3", "0", "1", "0", "0", ".", "5">>}

ChargeOptionKeys == {"isCod", "isHoliday", "isTimeSpecific"}

NextCharges ==
  \/ setPickup({LocDelhi, LocChandigarh})
  \/ setDrop({LocDelhi, LocMumbai})
  \/ setWeight(ChargeWeightTexts)
  \/ setInvoiceValue(InvoiceTexts)
  \/ toggleOption(ChargeOptionKeys)
  \/ setSettings(ChargeSettings)

SpecCharges == Init /\ [][NextCharges]_vars

(***************************************************************************)
(* SpecZone: locations as LocationInput reports them (a typed pincode has  *)
(* no city and no state until the lookup fills them) and the saved         *)
(* serviceability map                                                      *)
(***************************************************************************)
LocTypedDelhi == Location(<<"1", "1", "0", "0", "0", "1">>, <<>>, <<>>)
LocAtlantis == Location(<<"9", "9", "9", "9", "9", "9">>, <<"N", "o", "w", "h", "e", "r", "e">>, <<"A", "t", "l", "a", "n", "t", "i", "s">>)
LocShimla == Location(<<"1", "7", "1", "0", "0", "1">>, <<"S", "h", "i", "m", "l", "a">>, <<"H", "i", "m", "a", "c", "h", "a", "l", " ", "P", "r", "a", "d", "e", "s", "h">>)
LocJammu == Location(<<"1", "8", "0", "0", "0", "1">>, <<"J", "a", "m", "m", "u">>, <<"J", "A", "M", "M", "U", " ", "A", "N", "D", " ", "K", "A", "S", "H", "M", "I", "R">>)
LocGuwahati == Location(<<"7", "8", "1", "0", "0", "1">>, <<"G", "u", "w", "a", "h", "a", "t", "i">>, <<"A", "s", "s", "a", "m">>)
LocNorthGuwahati == Location(<<"7", "8", "2", "0", "0", "1">>, <<"N", "o", "r", "t", "h", " ", "G", "U", "W", "A", "H", "A", "T", "I">>, <<"A", "s", "s", "a", "m">>)
LocDispur == Location(<<"7", "8", "1", "0", "0", "6">>, <<"D", "i", "s", "p", "u", "r">>, <<"A", "s", "s", "a", "m">>)
LocShillong == Location(<<"7", "9", "3", "0", "0", "1">>, <<"S", "h", "i", "l", "l", "o", "n", "g">>, <<"M", "e", "g", "h", "a", "l", "a", "y", "a">>)
LocTypedMumbai == Location(<<"4", "0", "0", "0", "0", "1">>, <<>>, <<>>)

PickupLocations == {LocDelhi, LocTypedDelhi, LocAtlantis}

DropLocations ==
  {LocMumbai, LocTypedMumbai, LocAtlantis, LocShimla, LocJammu, LocGuwahati,
   LocNorthGuwahati, LocDispur, LocShillong}

\* Delhi: served, zone column empty; Mumbai: no delivery, zone W2;
\* 999999: no pickup, zone S1; Guwahati: zone NE; Shillong: zone E
ZoneMap ==
  (<<"1", "1", "0", "0", "0", "1">> :> Record(TRUE, TRUE, "", <<"N", "e", "w", " ", "D", "e", "l", "h", "i">>, <<"D", "e", "l", "h", "i">>))
  @@ (<<"4", "0", "0", "0", "0", "1">> :> Record(TRUE, FALSE, "W2", <<"M", "u", "m", "b", "a", "i">>, <<"M", "a", "h", "a", "r", "a", "s", "h", "t", "r", "a">>))
  @@ (<<"9", "9", "9", "9", "9", "9">> :> Record(FALSE, TRUE, "S1", <<"N", "o", "w", "h", "e", "r", "e">>, <<"A", "t", "l", "a", "n", "t", "i", "s">>))
  @@ (<<"7", "8", "1", "0", "0", "1">> :> Record(TRUE, TRUE, "NE", <<"G", "u", "w", "a", "h", "a", "t", "i">>, <<"A", "s", "s", "a", "m">>))
  @@ (<<"7", "9", "3", "0", "0", "1">> :> Record(TRUE, TRUE, "E", <<"S", "h", "i", "l", "l", "o", "n", "g">>, <<"M", "e", "g", "h", "a", "l", "a", "y", "a">>))

ZoneSettings == {DEFAULT_SETTINGS, [DEFAULT_SETTINGS EXCEPT !.serviceabilityMap = Some(ZoneMap)]}

ZoneWeightTexts == {<<>>, <<"2", "5">>}

NextZone ==
  \/ setPickup(PickupLocations)
  \/ setDrop(DropLocations)
  \/ setWeight(ZoneWeightTexts)
  \/ setSettings(ZoneSettings)

SpecZone == Init /\ [][NextZone]_vars

(***************************************************************************)
(* SpecStateNames: state names as a lookup or a CSV can spell them         *)
(***************************************************************************)
LocKochi == Location(<<"6", "8", "2", "0", "0", "1">>, <<"K", "o", "c", "h", "i">>, <<" ", " ", "K", "e", "r", "a", "l", "a", " ">>)
LocPanaji == Location(<<"4", "0", "3", "0", "0", "1">>, <<"P", "a", "n", "a", "j", "i">>, <<"G", "O", "A">>)
LocBlankState == Location(<<"5", "0", "0", "0", "0", "1">>, <<"H", "y", "d", "e", "r", "a", "b", "a", "d">>, <<" ", " ", " ">>)
LocConstructor == Location(<<"5", "6", "0", "0", "0", "1">>, <<"B", "e", "n", "g", "a", "l", "u", "r", "u">>, <<"C", "o", "n", "s", "t", "r", "u", "c", "t", "o", "r">>)
LocProto == Location(<<"6", "0", "0", "0", "0", "1">>, <<"C", "h", "e", "n", "n", "a", "i">>, <<"_", "_", "p", "r", "o", "t", "o", "_", "_">>)

StateNameLocations ==
  {LocDelhi, LocKochi, LocPanaji, LocBlankState, LocAtlantis, LocConstructor, LocProto}

NextStateNames ==
  \/ setPickup(StateNameLocations)
  \/ setDrop(StateNameLocations)
  \/ setWeight(ZoneWeightTexts)

SpecStateNames == Init /\ [][NextStateNames]_vars

(***************************************************************************)
(* SpecOptions: the seven options of one shipment                          *)
(***************************************************************************)
OptionWeightTexts == {<<>>, <<"6", "0", "0">>}

OptionInvoiceTexts == {<<>>, <<"2", "0", "0", "0">>, <<"2", "5", "0", "0", "0">>}

NextOptions ==
  \/ setPickup({LocDelhi})
  \/ setDrop({LocMumbai})
  \/ setWeight(OptionWeightTexts)
  \/ setInvoiceValue(OptionInvoiceTexts)
  \/ toggleOption(OptionKeys)

SpecOptions == Init /\ [][NextOptions]_vars

(***************************************************************************)
(* SpecExample: Delhi to Maharashtra, 15 kg, sides of 40, 30 and 20 cm     *)
(***************************************************************************)
ExampleDimensionTexts == {<<"4", "0">>, <<"3", "0">>, <<"2", "0">>}

NextExample ==
  \/ setPickup({LocDelhi})
  \/ setDrop({LocMumbai})
  \/ setWeight({<<"1", "5">>})
  \/ setDimensions(ExampleDimensionTexts)

SpecExample == Init /\ [][NextExample]_vars

(***************************************************************************)
(* SpecMalformed: number fields left empty or filled with text             *)
(***************************************************************************)
MalformedWeightTexts == {<<>>, <<"a", "b", "c">>, <<"0">>, <<"3", "0", ".", "1", "2", "5">>}

MalformedInvoiceTexts == {<<>>, <<"a", "b", "c">>, <<"0">>, <<"2", "5", "0", "0", "0">>}

MalformedDimensionTexts == {<<>>, <<"0">>, <<"4", "0">>}

NextMalformed ==
  \/ setPickup({LocDelhi})
  \/ setDrop({LocMumbai})
  \/ setWeight(MalformedWeightTexts)
  \/ setInvoiceValue(MalformedInvoiceTexts)
  \/ setDimensions(MalformedDimensionTexts)
  \/ toggleOption({"isCod"})

SpecMalformed == Init /\ [][NextMalformed]_vars

(***************************************************************************)
(* SpecRate: serviceability records whose zone code is no row or column of *)
(* the rate table                                                          *)
(***************************************************************************)
\* the drop record carries a code the table does not know
UnknownZoneMap ==
  (<<"1", "1", "0", "0", "0", "1">> :> Record(TRUE, TRUE, "N1", <<"N", "e", "w", " ", "D", "e", "l", "h", "i">>, <<"D", "e", "l", "h", "i">>))
  @@ (<<"4", "0", "0", "0", "0", "1">> :> Record(TRUE, TRUE, "X9", <<"M", "u", "m", "b", "a", "i">>, <<"M", "a", "h", "a", "r", "a", "s", "h", "t", "r", "a">>))

\* the pickup record carries the code in lower case
LowerCaseZoneMap ==
  (<<"1", "1", "0", "0", "0", "1">> :> Record(TRUE, TRUE, "n1", <<"N", "e", "w", " ", "D", "e", "l", "h", "i">>, <<"D", "e", "l", "h", "i">>))
  @@ (<<"4", "0", "0", "0", "0", "1">> :> Record(TRUE, TRUE, "W2", <<"M", "u", "m", "b", "a", "i">>, <<"M", "a", "h", "a", "r", "a", "s", "h", "t", "r", "a">>))

\* the drop record carries a name every object inherits
InheritedZoneMap ==
  (<<"1", "1", "0", "0", "0", "1">> :> Record(TRUE, TRUE, "N1", <<"N", "e", "w", " ", "D", "e", "l", "h", "i">>, <<"D", "e", "l", "h", "i">>))
  @@ (<<"4", "0", "0", "0", "0", "1">> :> Record(TRUE, TRUE, "constructor", <<"M", "u", "m", "b", "a", "i">>, <<"M", "a", "h", "a", "r", "a", "s", "h", "t", "r", "a">>))

RateSettings ==
  {DEFAULT_SETTINGS,
   [DEFAULT_SETTINGS EXCEPT !.serviceabilityMap = Some(UnknownZoneMap)],
   [DEFAULT_SETTINGS EXCEPT !.serviceabilityMap = Some(LowerCaseZoneMap)],
   [DEFAULT_SETTINGS EXCEPT !.serviceabilityMap = Some(InheritedZoneMap)]}

RateWeightTexts == {<<>>, <<"2", "5">>, <<"5", "0">>, <<"1", "0", "0">>}

NextRate ==
  \/ setPickup({LocDelhi, LocChandigarh})
  \/ setDrop({LocDelhi, LocMumbai})
  \/ setWeight(RateWeightTexts)
  \/ setSettings(RateSettings)

SpecRate == Init /\ [][NextRate]_vars

(***************************************************************************)
(* SpecPopup: the ODA popup; an event is handled only after the effects of *)
(* the previous render have run                                            *)
(***************************************************************************)
LocShortPin == Location(<<"1", "1", "0", "0">>, <<"N", "e", "w", " ", "D", "e", "l", "h", "i">>, <<"D", "e", "l", "h", "i">>)
LocDelhiCity == Location(<<"1", "1", "0", "0", "0", "1">>, <<"D", "e", "l", "h", "i">>, <<"D", "e", "l", "h", "i">>)

PopupPickups == {LocDelhi, LocDelhiCity, LocAtlantis, LocShortPin}

PopupDrops == {LocDelhi, LocMumbai, LocTypedMumbai}

PopupWeightTexts == {<<>>, <<"2", "5">>}

NextPopup ==
  \/ odaPopupEffect
  \/ closeOdaPopup
  \/ ~odaPopupDue /\ setPickup(PopupPickups)
  \/ ~odaPopupDue /\ setDrop(PopupDrops)
  \/ ~odaPopupDue /\ setWeight(PopupWeightTexts)
  \/ ~odaPopupDue /\ toggleOption({"isCod"})
  \/ ~odaPopupDue /\ setSettings(ZoneSettings)

SpecPopup == Init /\ [][NextPopup]_vars

(***************************************************************************)
(* SpecModal: the settings modal.  An uploaded file is given as a table    *)
(* (its lines, each a sequence of cells) and read as the text of that      *)
(* table.                                                                  *)
(***************************************************************************)
RECURSIVE join(_, _)
join(parts, sep) ==
  IF parts = <<>> THEN <<>>
  ELSE IF Len(parts) = 1 THEN parts[1]
  ELSE parts[1] \o <<sep>> \o join(Tail(parts), sep)

\* the text of a file whose lines hold these cells
csvText(table) == join([i \in 1..Len(table) |-> join(table[i], ",")], "\n")

\* all six columns; rows with a quoted and padded pincode, a pincode that is
\* not a number, an empty pincode, a blank line, a row of one cell, and a
\* pincode that occurs twice
TableMixed ==
  << <<<<"P", "I", "N", " ", "C", "O", "D", "E">>, <<"P", "i", "c", "k", " ", "U", "p", " ", "A", "v", "a", "i", "l", "a", "b", "l", "e">>, <<"D", "e", "l", "i", "v", "e", "r", "y", " ", "A", "v", "a", "i", "l", "a", "b", "l", "e">>, <<"Z", "o", "n", "a", "l", " ", "C", "o", "d", "e">>,
       <<"D", "e", "l", "i", "v", "e", "r", "y", " ", "C", "i", "t", "y">>, <<"D", "e", "l", "i", "v", "e", "r", "y", " ", "S", "t", "a", "t", "e", "/", "U", "T">>>>,
     <<<<" ", "'", "1", "1", "0", "0", "0", "1", "'", " ">>, <<"y">>, <<"Y", "e", "s">>, <<"N", "1">>, <<"N", "e", "w", " ", "D", "e", "l", "h", "i">>, <<"D", "e", "l", "h", "i">>>>,
     <<<<"4", "0", "A", "0", "0", "1">>, <<"Y">>, <<"Y">>, <<"W", "1">>, <<"P", "u", "n", "e">>, <<"M", "a", "h", "a", "r", "a", "s", "h", "t", "r", "a">>>>,
     <<<<>>, <<"Y">>, <<"Y">>, <<"W", "1">>, <<"T", "h", "a", "n", "e">>, <<"M", "a", "h", "a", "r", "a", "s", "h", "t", "r", "a">>>>,
     <<<<" ", " ">>>>,
     <<<<"5", "6", "0", "0", "0", "1">>>>,
     <<<<"4", "0", "0", "0", "0", "1">>, <<"N">>, <<" ", "t", "r", "u", "e">>, <<"W", "2">>, <<"M", "u", "m", "b", "a", "i">>, <<"M", "a", "h", "a", "r", "a", "s", "h", "t", "r", "a">>>>,
     <<<<"4", "0", "0", "0", "0", "1">>, <<"T", "R", "U", "E">>, <<"1">>, <<"W", "2">>, <<"M", "u", "m", "b", "a", "i">>, <<"M", "a", "h", "a", "r", "a", "s", "h", "t", "r", "a">>>> >>

\* no availability columns
TablePinCity ==
  << <<<<"P", "i", "n", "c", "o", "d", "e">>, <<"C", "i", "t", "y">>, <<"S", "t", "a", "t", "e">>>>,
     <<<<"1", "1", "0", "0", "0", "1">>, <<"N", "e", "w", " ", "D", "e", "l", "h", "i">>, <<"D", "e", "l", "h", "i">>>>,
     <<<<"7", "8", "1", "0", "0", "1">>, <<"G", "u", "w", "a", "h", "a", "t", "i">>, <<"A", "s", "s", "a", "m">>>> >>

\* no postal-code column
TableNoPin ==
  << <<<<"C", "i", "t", "y">>, <<"S", "t", "a", "t", "e">>, <<"D", "e", "l", "i", "v", "e", "r", "y", " ", "A", "v", "a", "i", "l", "a", "b", "l", "e">>>>,
     <<<<"N", "e", "w", " ", "D", "e", "l", "h", "i">>, <<"D", "e", "l", "h", "i">>, <<"Y">>>> >>

\* a postal-code column and no row with a numeric pincode
TableNoRows ==
  << <<<<"P", "I", "N", " ", "C", "O", "D", "E">>, <<"Z", "o", "n", "a", "l", " ", "C", "o", "d", "e">>>>,
     <<<<"N", "/", "A">>, <<"N", "1">>>>,
     <<>> >>

UploadTables == {TableMixed, TablePinCity, TableNoPin, TableNoRows}

UploadTexts == {csvText(table) : table \in UploadTables}

ModalFieldNames == {"odaMin"}

ModalFieldTexts == {<<"1", "5", "0", "0">>}

NextModal ==
  \/ openSettings
  \/ closeSettings
  \/ handleChange(ModalFieldNames, ModalFieldTexts)
  \/ handleClearData
  \/ handleFileUpload(UploadTexts)
  \/ readerOnload
  \/ handleSubmit

SpecModal == Init /\ [][NextModal]_vars

(***************************************************************************)
(* SpecEmptyUpload: tables with and without accepted rows are uploaded and *)
(* saved, and a shipment is entered                                        *)
(***************************************************************************)
EmptyUploadTexts == {csvText(TableNoRows), csvText(TablePinCity)}

NextEmptyUpload ==
  \/ openSettings
  \/ closeSettings
  \/ handleClearData
  \/ handleFileUpload(EmptyUploadTexts)
  \/ readerOnload
  \/ handleSubmit
  \/ setPickup({LocDelhi})
  \/ setDrop({LocDelhi, LocMumbai})
  \/ setWeight({<<"2", "5">>, <<"1", "5", "0">>})

SpecEmptyUpload == Init /\ [][NextEmptyUpload]_vars

(***************************************************************************)
(* SpecLookup: pincodes are typed, debounce timers fire, and serviceability*)
(* maps are saved, replaced and removed                                    *)
(***************************************************************************)
\* 110001 under another city name, no other record
RenamedMap ==
  (<<"1", "1", "0", "0", "0", "1">> :> Record(TRUE, TRUE, "N1", <<"D", "e", "l", "h", "i">>, <<"D", "e", "l", "h", "i">>))

LookupSettings ==
  {DEFAULT_SETTINGS,
   [DEFAULT_SETTINGS EXCEPT !.serviceabilityMap = Some(ZoneMap)],
   [DEFAULT_SETTINGS EXCEPT !.serviceabilityMap = Some(RenamedMap)]}

PickupPincodeTexts == {<<"1", "1">>, <<"1", "1", "0", "0", "0", "1">>, <<"4", "0", "0", "0", "0", "1">>, <<"5", "6", "0", "0", "0", "1">>}

DropPincodeTexts == {<<"4", "0", "0", "0", "0", "1">>, <<"7", "8", "1", "0", "0", "1">>}

NextLookup ==
  \/ editPincode(PICKUP, PickupPincodeTexts)
  \/ editPincode(DESTINATION, DropPincodeTexts)
  \/ timerFires(PICKUP)
  \/ timerFires(DESTINATION)
  \/ setSettings(LookupSettings)

SpecLookup == Init /\ [][NextLookup]_vars

Next ==
  \/ NextWeight
  \/ NextCharges
  \/ NextZone
  \/ NextStateNames
  \/ NextOptions
  \/ NextExample
  \/ NextMalformed
  \/ NextRate
  \/ NextPopup
  \/ NextModal
  \/ NextEmptyUpload
  \/ NextLookup

Spec == Init /\ [][Next]_vars

(***************************************************************************)
(* Properties                                                              *)
(***************************************************************************)
\* a weight in grams rounded to 1/100 kg, half away from zero
RoundGrams(g) == Sign(g) * ((Abs(g) + 5) \div 10)

\* an amount in paise rounded to whole currency units, half up
RoundPaise(p) == (p + 50) \div 100

MaxInt(a, b) == IF a < b THEN b ELSE a

\* the sum of the nine line items as the result reports them, in paise
ReportedSum(r) ==
  r.freightCharge + r.fuelSurcharge + r.awbCharge + r.odaCharge + r.handlingCharge
    + r.regionalCharge + r.otherSurcharges + r.codCharge + r.rovCharge

\* C1 as stated: totalCost is the reported (two-decimal) line items, summed and
\* then rounded to the nearest whole currency unit.
C1_TotalIsRoundedReportedSum ==
  LET res == result IN res # null => LET R == Val(res) IN R.totalCost = RoundPaise(ReportedSum(R))

\* C1 as amended: totalCost rounds the un-rounded sum, so it stays within 0.54
\* of the sum of the nine reported line items and within 1 of the rounding of
\* that reported sum.
C1_TotalNearReportedSum ==
  LET res == result IN res # null => LET R == Val(res) IN
    /\ Abs(100 * R.totalCost - ReportedSum(R)) <= 54
    /\ Abs(R.totalCost - RoundPaise(ReportedSum(R))) <= 1

\* a result whose total is not the rounding of its reported line items
C1_Witness ==
  LET res == result IN res # null /\ LET R == Val(res) IN
  /\ R.totalCost # RoundPaise(ReportedSum(R))
  /\ R.handlingCharge > 0

\* a leg whose zone the state name or a serviceability record supplies
Resolvable(loc) ==
  \/ getZone(loc.state) # null
  \/ /\ settings.serviceabilityMap # null
     /\ loc.pincode \in DOMAIN Val(settings.serviceabilityMap)
     /\ Val(settings.serviceabilityMap)[loc.pincode].zone # ""

\* C2: there is no result exactly when the pickup zone or the drop zone cannot
\* be resolved from the state name or from a serviceability-record override.
C2_NoResultIffZoneUnresolvable ==
  (result = null) <=> ~(Resolvable(pickup) /\ Resolvable(drop))

\* C3 as stated: chargeableWeight is at least the minimum chargeable weight,
\* the dead weight and the (exact) volumetric weight.
C3_ChargeableAtLeastInputs ==
  LET res == result IN res # null => LET R == Val(res) IN
    /\ R.chargeableWeight * 10 >= settings.minChargeableWeight
    /\ R.chargeableWeight * 10 >= R.deadWeight
    /\ ~WtLess(WtOfGrams(R.chargeableWeight * 10), volumetricWt)

\* C3 as amended: chargeableWeight is at least each of the three weights
\* rounded to two decimals (it can fall short of one of them by less than
\* 0.005 kg).
C3_ChargeableAtLeastRoundedInputs ==
  LET res == result IN res # null => LET R == Val(res) IN
    /\ R.chargeableWeight >= RoundGrams(settings.minChargeableWeight)
    /\ R.chargeableWeight >= RoundGrams(R.deadWeight)
    /\ R.chargeableWeight >= R.volumetricWeight

\* a result whose chargeable weight was rounded down below the dead weight
C3_Witness ==
  LET res == result IN res # null /\ LET R == Val(res) IN
  /\ R.chargeableWeight * 10 < R.deadWeight
  /\ R.chargeableWeight = RoundGrams(R.deadWeight)

\* C4: chargeableWeight is the maximum of all three of dead weight, volumetric
\* weight and minimum chargeable weight, rounded to two decimals.
C4_ChargeableIsThreeWayMax ==
  LET res == result IN res # null => LET R == Val(res) IN
    R.chargeableWeight =
      MaxInt(MaxInt(RoundGrams(R.deadWeight), R.volumetricWeight),
             RoundGrams(settings.minChargeableWeight))

\* a result in which the minimum chargeable weight is the strict maximum
C4_Witness ==
  LET res == result IN res # null /\ LET R == Val(res) IN
  /\ RoundGrams(settings.minChargeableWeight) > RoundGrams(R.deadWeight)
  /\ RoundGrams(settings.minChargeableWeight) > R.volumetricWeight
  /\ R.volumetricWeight > 0
  /\ R.deadWeight > 0
  /\ R.chargeableWeight = RoundGrams(settings.minChargeableWeight)

AllDimensionsPositive == \A i \in 1..3 : DimValues[i] # NaN /\ Val(DimValues[i]) > 0

\* C5: volumetric weight is L x B x H (in cm) / volumetricDivisor when all three
\* dimensions are positive, and 0 as soon as one dimension is zero or negative.
C5_VolumetricZeroUnlessAllPositive ==
  LET res == result IN res # null => LET R == Val(res) IN
    R.volumetricWeight =
      IF AllDimensionsPositive
      THEN WtToFixed2([neg |-> FALSE, mag |-> volumeMag])
      ELSE 0

\* chargeable weights, in 1/100 kg, on which monotonicity is compared
SampleWeights == {0, 2000, 7100, 7251, 20001, 50000}

\* C6: basic freight is max(rate x chargeableWeight, minFreightAmount) for the
\* rate-table cell of (zoneFrom, zoneTo); it never is below the product, and it
\* does not decrease when the chargeable weight grows.
C6_FreightIsFlooredProduct ==
  LET res == result IN res # null => LET R == Val(res) IN
    /\ R.baseRate = RateOf(R.zoneFrom, R.zoneTo)
    /\ basicFreight = BigMax(TimesWeight(R.baseRate, R.chargeableWeight),
                             MoneyOfPaise(settings.minFreightAmount))
    /\ R.freightCharge =
         MaxInt(MoneyToFixed2(TimesWeight(R.baseRate, R.chargeableWeight)),
                settings.minFreightAmount)
    /\ ~BigLess(basicFreight, TimesWeight(R.baseRate, R.chargeableWeight))
    /\ \A w1, w2 \in SampleWeights \cup {R.chargeableWeight} :
         w1 <= w2 => ~BigLess(FreightFor(R.baseRate, w2), FreightFor(R.baseRate, w1))

\* a result whose freight is the product, above the minimum freight
C6_Witness ==
  LET res == result IN res # null /\ LET R == Val(res) IN
  /\ R.baseRate > 0
  /\ R.freightCharge > settings.minFreightAmount
  /\ basicFreight = TimesWeight(R.baseRate, R.chargeableWeight)

\* C7: with a serviceability map, a leg is ODA iff its exact pincode has no
\* record or the record's flag for that leg is false; without a map no leg is
\* ODA; isOda is pickupOda or deliveryOda.
C7_OdaDetermination ==
  LET res == result IN res # null => LET R == Val(res) IN
    /\ R.isOda = (R.pickupOda \/ R.deliveryOda)
    /\ IF settings.serviceabilityMap = null
       THEN ~R.pickupOda /\ ~R.deliveryOda
       ELSE LET map == Val(settings.serviceabilityMap)
            IN /\ R.pickupOda <=>
                    (pickup.pincode \notin DOMAIN map \/ ~map[pickup.pincode].pickupAvailable)
               /\ R.deliveryOda <=>
                    (drop.pincode \notin DOMAIN map \/ ~map[drop.pincode].deliveryAvailable)

\* a drop record that allows pickup but not delivery makes the drop leg ODA
C7_Witness ==
  LET res == result IN res # null /\ LET R == Val(res) IN
  /\ settings.serviceabilityMap # null
  /\ drop.pincode \in DOMAIN Val(settings.serviceabilityMap)
  /\ Val(settings.serviceabilityMap)[drop.pincode].pickupAvailable
  /\ ~Val(settings.serviceabilityMap)[drop.pincode].deliveryAvailable
  /\ R.deliveryOda
  /\ ~R.pickupOda

\* C8: the ODA surcharge is 0 when isOda is false and is
\* max(odaMin, odaPerKg x chargeableWeight), hence at least odaMin, when isOda
\* is true.
C8_OdaSurcharge ==
  LET res == result IN res # null => LET R == Val(res) IN
    IF R.isOda
    THEN /\ odaCharge = BigMax(MoneyOfPaise(settings.odaMin),
                               TimesWeight(settings.odaPerKg, R.chargeableWeight))
         /\ R.odaCharge =
              MaxInt(settings.odaMin,
                     MoneyToFixed2(TimesWeight(settings.odaPerKg, R.chargeableWeight)))
         /\ R.odaCharge >= settings.odaMin
    ELSE odaCharge = <<>> /\ R.odaCharge = 0

\* an ODA result whose per-kg surcharge exceeds odaMin
C8_Witness ==
  LET res == result IN res # null /\ LET R == Val(res) IN
  /\ R.isOda
  /\ R.odaCharge > settings.odaMin

\* C9: handling is 0 up to 70.00 kg of chargeable weight, handling70to200 x
\* weight from 71.00 to 200.00 kg inclusive, and handlingAbove200 x weight above
\* 200 kg.
C9_HandlingBands ==
  LET res == result IN res # null => LET R == Val(res) IN
    LET w == R.chargeableWeight
    IN /\ w <= 7000 => R.handlingCharge = 0
       /\ (w >= 7100 /\ w <= 20000) =>
            /\ R.handlingCharge = MoneyToFixed2(TimesWeight(settings.handling70to200, w))
            /\ settings.handling70to200 > 0 => R.handlingCharge > 0
       /\ w > 20000 =>
            R.handlingCharge = MoneyToFixed2(TimesWeight(settings.handlingAbove200, w))

\* 200.01 kg is charged at the above-200 rate: 4 x 200.01 = 800.04
C9_Witness ==
  LET res == result IN res # null /\ LET R == Val(res) IN
  /\ R.chargeableWeight = 20001
  /\ settings.handling70to200 # settings.handlingAbove200
  /\ R.handlingCharge = 80004

NorthEastStates ==
  {<<"a", "s", "s", "a", "m">>, <<"m", "e", "g", "h", "a", "l", "a", "y", "a">>, <<"t", "r", "i", "p", "u", "r", "a">>,
   <<"a", "r", "u", "n", "a", "c", "h", "a", "l", " ", "p", "r", "a", "d", "e", "s", "h">>, <<"m", "i", "z", "o", "r", "a", "m">>,
   <<"m", "a", "n", "i", "p", "u", "r">>, <<"n", "a", "g", "a", "l", "a", "n", "d">>, <<"s", "i", "k", "k", "i", "m">>}

RegionalApplies ==
  \/ toLowerCase(drop.state) \in
       {<<"j", "a", "m", "m", "u", " ", "&", " ", "k", "a", "s", "h", "m", "i", "r">>, <<"j", "a", "m", "m", "u", " ", "a", "n", "d", " ", "k", "a", "s", "h", "m", "i", "r">>, <<"h", "i", "m", "a", "c", "h", "a", "l", " ", "p", "r", "a", "d", "e", "s", "h">>}
  \/ /\ trim(toLowerCase(drop.state)) \in NorthEastStates
     /\ ~includes(toLowerCase(drop.city), <<"g", "u", "w", "a", "h", "a", "t", "i">>)
     /\ ~startsWith(drop.pincode, <<"7", "8", "1">>)

\* C10: the regional surcharge is regionalSurcharge x chargeableWeight for a
\* destination state Jammu & Kashmir or Himachal Pradesh, and for a north-east
\* state unless the city contains "guwahati" (in any case) or the pincode
\* starts with 781; it is 0 otherwise.
C10_RegionalSurcharge ==
  LET res == result IN res # null => LET R == Val(res) IN
    /\ R.regionalCharge =
         IF RegionalApplies
         THEN MoneyToFixed2(TimesWeight(settings.regionalSurcharge, R.chargeableWeight))
         ELSE 0
    /\ drop = LocShimla => R.regionalCharge > 0
    /\ drop \in {LocGuwahati, LocNorthGuwahati, LocDispur} => R.regionalCharge = 0

\* a north-east destination exempted by its city alone, whatever the case
C10_Witness ==
  LET res == result IN res # null /\ LET R == Val(res) IN
  /\ drop = LocNorthGuwahati
  /\ R.zoneTo = "NE"
  /\ R.regionalCharge = 0

\* the zone of the serviceability record of a leg, when it has one
HasOverride(loc) ==
  /\ settings.serviceabilityMap # null
  /\ loc.pincode \in DOMAIN Val(settings.serviceabilityMap)
  /\ Val(settings.serviceabilityMap)[loc.pincode].zone # ""

OverrideOf(loc) == Val(settings.serviceabilityMap)[loc.pincode].zone

\* C11: when both legs resolve, a leg whose exact pincode has a serviceability
\* record with a non-empty zone gets that zone, whatever its state name gives
\* (another zone, no zone, or no state at all); that zone is reported in the
\* result and is the one the base rate is looked up with.
C11_ZoneOverride ==
  (Resolvable(pickup) /\ Resolvable(drop)) =>
    LET res == result IN
      /\ res # null
      /\ HasOverride(pickup) => Val(res).zoneFrom = OverrideOf(pickup)
      /\ HasOverride(drop) => Val(res).zoneTo = OverrideOf(drop)
      /\ Val(res).baseRate =
           RateOf(IF HasOverride(pickup) THEN OverrideOf(pickup) ELSE Val(getZone(pickup.state)),
                  IF HasOverride(drop) THEN OverrideOf(drop) ELSE Val(getZone(drop.state)))

\* the zone the own keys of STATE_ZONE_MAP assign to a state name
OwnZoneOf(name) ==
  LET normalized == trim(toLowerCase(name))
  IN IF \E i \in 1..Len(STATE_ZONE_MAP) : STATE_ZONE_MAP[i].key = normalized
     THEN Some(STATE_ZONE_MAP[CHOOSE i \in 1..Len(STATE_ZONE_MAP) :
                                STATE_ZONE_MAP[i].key = normalized].zone)
     ELSE null

\* C12: getZone returns the zone the zone map assigns to the lower-cased,
\* trimmed state name, and none for every name that is not a key of the zone
\* map, the empty string and blank names included.
C12_GetZoneByNormalizedKey ==
  \A name \in {pickup.state, drop.state} : getZone(name) = OwnZoneOf(name)

\* the charge of one option by itself, a function of the settings, the
\* chargeable weight w (in 1/100 kg) and the declared value v (in thousandths)
OwnCharge(key, w, v) ==
  CASE key = "isHoliday" -> MoneyOfPaise(HolidayCharge)
    [] key = "isCsd" -> MoneyOfPaise(settings.csdCharge)
    [] key = "isTimeSpecific" ->
         BigMax(MoneyOfPaise(settings.timeSpecificMin), TimesWeight(settings.timeSpecificPerKg, w))
    [] key = "isMallDelivery" ->
         BigMax(MoneyOfPaise(settings.mallDeliveryMin), TimesWeight(settings.mallDeliveryPerKg, w))
    [] key = "isReattempt" ->
         BigMax(MoneyOfPaise(settings.reattemptMin), TimesWeight(settings.reattemptPerKg, w))
    [] key = "isCod" ->
         BigMax(MoneyOfPaise(settings.codMin), ValueTimesPercent(v, settings.codPercent))
    [] key = "isRov" ->
         BigMax(MoneyOfPaise(settings.rovMin), ValueTimesPercent(v, settings.rovPercent))

\* the sum of the own charges of the options of keys that are switched on
RECURSIVE ActiveCharges(_, _, _)
ActiveCharges(keys, w, v) ==
  IF keys = {} THEN <<>>
  ELSE LET key == CHOOSE k \in keys : TRUE
           rest == ActiveCharges(keys \ {key}, w, v)
       IN IF options[key] THEN BigAdd(OwnCharge(key, w, v), rest) ELSE rest

SurchargeKeys == {"isHoliday", "isCsd", "isTimeSpecific", "isMallDelivery", "isReattempt"}

\* the part of the total no option enters
OptionFreeCharges ==
  BigAdd(BigAdd(BigAdd(BigAdd(BigAdd(basicFreight, fuelSurcharge), MoneyOfPaise(awb)),
                       odaCharge), handlingCharge), regionalCharge)

\* C13: otherSurcharges is the sum of the own charges of the active options
\* among holiday, CSD, time-specific, mall delivery and re-attempt, and the
\* un-rounded total is the option-free charges plus the own charge of every
\* active option of the seven, so that switching one option changes the total
\* by that option's own charge whatever the other options are: the option-free
\* charges of the lane are 537.50 at 20 kg and 11875.00 at 600 kg under every
\* set of options.
C13_OptionsAdditive ==
  LET res == result IN res # null => LET R == Val(res) IN
    LET w == R.chargeableWeight
        v == invValue
    IN /\ otherSurcharges = ActiveCharges(SurchargeKeys, w, v)
       /\ R.otherSurcharges = MoneyToFixed2(ActiveCharges(SurchargeKeys, w, v))
       /\ totalCost = BigAdd(OptionFreeCharges, ActiveCharges(OptionKeys, w, v))
       /\ OptionFreeCharges = MoneyOfPaise(IF w = 60000 THEN 1187500 ELSE 53750)

\* mall delivery, re-attempt, time-specific (above its minimum) and COD
\* charged together
C13_Witness ==
  LET res == result IN res # null /\ LET R == Val(res) IN
  /\ options.isMallDelivery /\ options.isReattempt /\ options.isTimeSpecific
  /\ options.isCod /\ ~options.isHoliday
  /\ R.chargeableWeight = 60000
  /\ R.otherSurcharges = 180000 + 180000 + 180000

\* value * percent / 100 in paise, rounded half up, for a value in thousandths
\* and a percentage in tenths of a percent
PercentOfValue(v, tenths) == IF v <= 0 THEN 0 ELSE ((2 * v * tenths) \div 10000 + 1) \div 2

\* C14: codCharge is max(codMin, declaredValue x codPercent / 100) with the COD
\* option and 0 without; rovCharge is max(rovMin, declaredValue x rovPercent /
\* 100) with the risk-cover option and 0 without; awbCharge is the configured
\* flat fee in every result.
C14_CodRovAwb ==
  LET res == result IN res # null => LET R == Val(res) IN
    /\ R.codCharge =
         IF options.isCod
         THEN MaxInt(settings.codMin, PercentOfValue(invValue, settings.codPercent))
         ELSE 0
    /\ R.rovCharge =
         IF options.isRov
         THEN MaxInt(settings.rovMin, PercentOfValue(invValue, settings.rovPercent))
         ELSE 0
    /\ R.awbCharge = settings.awbCharge

\* COD and risk cover both above their minimum: 1% and 0.5% of 25000
C14_Witness ==
  LET res == result IN res # null /\ LET R == Val(res) IN
  /\ options.isCod /\ options.isRov
  /\ R.codCharge = 25000 /\ R.codCharge > settings.codMin
  /\ R.rovCharge = 12500 /\ R.rovCharge > settings.rovMin
  /\ R.awbCharge = 10000

\* the nine charges before any rounding, summed
UnroundedSum ==
  BigAdd(BigAdd(BigAdd(BigAdd(BigAdd(BigAdd(BigAdd(BigAdd(
    basicFreight, fuelSurcharge), MoneyOfPaise(settings.awbCharge)), odaCharge),
    handlingCharge), regionalCharge), otherSurcharges), codCharge), rovCharge)

\* an amount rounded to whole currency units is t: t - 1/2 <= m < t + 1/2
RoundsTo(m, t) ==
  /\ ~BigLess(BigMulSmall(m, 2), BigMulSmall(MoneyOfPaise(100), 2 * t - 1))
  /\ BigLess(BigMulSmall(m, 2), BigMulSmall(MoneyOfPaise(100), 2 * t + 1))

\* C15: totalCost is the un-rounded sum of the nine charges, rounded once to
\* whole units; the two-decimal rounding of the reported line items does not
\* enter it.
C15_TotalRoundsUnroundedSum ==
  LET res == result IN res # null => LET R == Val(res) IN
    /\ R.totalCost >= 1
    /\ RoundsTo(UnroundedSum, R.totalCost)

\* a total that the reported line items would have rounded the other way
C15_Witness ==
  LET res == result IN res # null /\ LET R == Val(res) IN
  /\ RoundsTo(UnroundedSum, R.totalCost)
  /\ R.totalCost = RoundPaise(ReportedSum(R)) - 1

\* C16: the worked example.  Default settings, no serviceability table, no
\* options, Delhi to Maharashtra, 15 kg, 40 x 30 x 20 cm: zones N1 and W2,
\* volumetric weight 5.33, chargeable weight 20, base rate 12.5, freight 350,
\* fuel 87.5, AWB 100, no ODA, handling or regional charge, total 538.
C16_WorkedExample ==
  ( /\ settings = DEFAULT_SETTINGS
    /\ options = DEFAULT_OPTIONS
    /\ pickup.state = <<"D", "e", "l", "h", "i">>
    /\ drop.state = <<"M", "a", "h", "a", "r", "a", "s", "h", "t", "r", "a">>
    /\ weight = <<"1", "5">>
    /\ dimensions = [length |-> Num(40000), breadth |-> Num(30000), height |-> Num(20000)]
    /\ dimUnit = CM )
  => LET res == result IN res # null /\ LET R == Val(res) IN
       /\ R.zoneFrom = "N1"
       /\ R.zoneTo = "W2"
       /\ R.volumetricWeight = 533
       /\ R.chargeableWeight = 2000
       /\ R.baseRate = 1250
       /\ R.freightCharge = 35000
       /\ R.fuelSurcharge = 8750
       /\ R.awbCharge = 10000
       /\ R.odaCharge = 0
       /\ R.handlingCharge = 0
       /\ R.regionalCharge = 0
       /\ R.totalCost = 538

\* the shipment of the example has been entered and priced
C16_Witness ==
  /\ pickup = LocDelhi
  /\ drop = LocMumbai
  /\ weight = <<"1", "5">>
  /\ dimensions = [length |-> Num(40000), breadth |-> Num(30000), height |-> Num(20000)]
  /\ result # null
  /\ Val(result).deadWeight = 15000
  /\ Val(result).totalCost = 538

\* an amount in paise times a percentage in tenths of a percent, rounded half
\* up to paise
PercentOfPaise(p, tenths) == ((2 * p * tenths) \div 1000 + 1) \div 2

\* C17: the fuel surcharge is basic freight x fuelSurchargePercent / 100 on the
\* freight after the minimum-freight floor; weight enters only through the
\* freight, so every shipment charged the minimum freight has the same fuel
\* surcharge.
C17_FuelOnFlooredFreight ==
  LET res == result IN res # null => LET R == Val(res) IN
    LET floored == BigMax(TimesWeight(R.baseRate, R.chargeableWeight),
                          MoneyOfPaise(settings.minFreightAmount))
    IN /\ BigMulSmall(fuelSurcharge, 1000) =
            BigMulSmall(floored, settings.fuelSurchargePercent)
       /\ R.fuelSurcharge = MoneyToFixed2(TimesPercent(floored, settings.fuelSurchargePercent))
       /\ R.freightCharge = settings.minFreightAmount =>
            R.fuelSurcharge =
              PercentOfPaise(settings.minFreightAmount, settings.fuelSurchargePercent)

\* a shipment above the minimum weight that is charged the minimum freight
C17_Witness ==
  LET res == result IN res # null /\ LET R == Val(res) IN
  /\ R.chargeableWeight = 2500
  /\ R.baseRate * R.chargeableWeight < settings.minFreightAmount * 100
  /\ R.freightCharge = settings.minFreightAmount
  /\ R.fuelSurcharge = 8750

\* a text without any digit: empty, or not a number
NonNumeric(text) == \A i \in 1..Len(text) : text[i] \notin DigitChars

SomeDimensionNaN == \E k \in DimensionKeys : dimensions[k] = NaN

\* C18: an empty or non-numeric dead weight or declared value counts as 0, a
\* missing or non-numeric dimension gives volumetric weight 0, and with both
\* zones resolved there is a result, whose figures are those of the shipment
\* with these fields at 0.
C18_MalformedNumbersAreZero ==
  (pickup.state # <<>> /\ drop.state # <<>> /\ zoneFrom # null /\ zoneTo # null) =>
    LET res == result IN res # null /\ LET R == Val(res) IN
      /\ NonNumeric(weight) => R.deadWeight = 0
      /\ NonNumeric(invoiceValue) =>
           /\ invValue = 0
           /\ R.codCharge = IF options.isCod THEN settings.codMin ELSE 0
           /\ R.rovCharge = 0
      /\ SomeDimensionNaN => R.volumetricWeight = 0
      /\ (NonNumeric(weight) /\ SomeDimensionNaN) =>
           /\ R.chargeableWeight = RoundGrams(settings.minChargeableWeight)
           /\ R.freightCharge = 35000
           /\ R.fuelSurcharge = 8750
           /\ NonNumeric(invoiceValue) =>
                R.totalCost = IF options.isCod THEN 588 ELSE 538

\* text in the weight, nothing in the value, one side left empty, COD on
C18_Witness ==
  LET res == result IN res # null /\ LET R == Val(res) IN
  /\ weight = <<"a", "b", "c">>
  /\ invoiceValue = <<>>
  /\ dimensions.length = NaN
  /\ dimensions.breadth = Num(40000)
  /\ dimensions.height = Num(40000)
  /\ options.isCod
  /\ R.deadWeight = 0
  /\ R.totalCost = 588

\* the rate table has a cell for the pair
HasCell(from, to) ==
  from \in DOMAIN ZONE_PRICE_MATRIX /\ to \in DOMAIN ZONE_PRICE_MATRIX[from]

\* C19: when the rate table has no cell for the resolved pair of zones, there
\* still is a result, its baseRate is 0 and its basic freight is
\* settings.minFreightAmount.
C19_MissingCellIsRateZero ==
  ( /\ pickup.state # <<>> /\ drop.state # <<>>
    /\ zoneFrom # null /\ zoneTo # null
    /\ ~HasCell(Val(zoneFrom), Val(zoneTo)) )
  => LET res == result IN
       /\ res # null
       /\ rateIsNumber
       /\ Val(res).baseRate = 0
       /\ Val(res).freightCharge = settings.minFreightAmount

\* C28: every chargeable weight above 70 kg is charged handling (for positive
\* handling rates); weights strictly between 70.00 and 71.00 kg are charged
\* handling70to200 x weight.
C28_NoGapAbove70 ==
  LET res == result IN res # null => LET R == Val(res) IN
    LET w == R.chargeableWeight
    IN /\ (w > 7000 /\ settings.handling70to200 > 0 /\ settings.handlingAbove200 > 0) =>
            R.handlingCharge > 0
       /\ (w > 7000 /\ w < 7100) =>
            R.handlingCharge = MoneyToFixed2(TimesWeight(settings.handling70to200, w))

\* the Guwahati carve-out of the destination
GuwahatiCarveOut ==
  \/ includes(toLowerCase(drop.city), <<"g", "u", "w", "a", "h", "a", "t", "i">>)
  \/ startsWith(drop.pincode, <<"7", "8", "1">>)

\* C29: the regional surcharge applies iff the destination state is Jammu &
\* Kashmir or Himachal Pradesh, or the reported destination zone (the record's
\* zone, when a record overrides it) is NE and the Guwahati carve-out does not
\* hold.
C29_RegionalUsesReportedZone ==
  LET res == result IN res # null => LET R == Val(res) IN
    (R.chargeableWeight > 0 /\ settings.regionalSurcharge > 0) =>
      ( R.regionalCharge > 0 <=>
          \/ toLowerCase(drop.state) \in
               {<<"j", "a", "m", "m", "u", " ", "&", " ", "k", "a", "s", "h", "m", "i", "r">>, <<"j", "a", "m", "m", "u", " ", "a", "n", "d", " ", "k", "a", "s", "h", "m", "i", "r">>, <<"h", "i", "m", "a", "c", "h", "a", "l", " ", "p", "r", "a", "d", "e", "s", "h">>}
          \/ (R.zoneTo = "NE" /\ ~GuwahatiCarveOut) )

(***************************************************************************)
(* Claims C30, C21 - C27                                                   *)
(***************************************************************************)

\* the dimension after switching to the other unit and back with
\* handleUnitChange
UnitRoundTrip(val) ==
  convert(convert(val, dimUnit # CM), dimUnit = CM)

\* C30: switching the dimension unit to the other unit and back restores every
\* dimension that holds a number.
C30_UnitRoundTrip ==
  \A k \in DimensionKeys :
    dimensions[k] # NaN => UnitRoundTrip(dimensions[k]) = dimensions[k]

\* the pickup and the drop pincode are the same in the next state
PincodesKept ==
  pickup'.pincode = pickup.pincode /\ drop'.pincode = drop.pincode

\* C25: the ODA popup opens only where a result with isOda exists, the
\* acknowledgement is false and both pincodes have at least 6 characters; once
\* acknowledged it stays closed and acknowledged while both pincodes stay the
\* same, and every pincode change clears the acknowledgement.
C25_OdaPopupAcknowledgement ==
  [][ /\ (~showOdaPopup /\ showOdaPopup') =>
           LET res == result IN
             /\ res # null /\ Val(res).isOda
             /\ ~odaAcknowledged
             /\ Len(pickup.pincode) >= 6 /\ Len(drop.pincode) >= 6
      /\ (odaAcknowledged /\ PincodesKept) => (odaAcknowledged' /\ ~showOdaPopup')
      /\ ~PincodesKept => ~odaAcknowledged' ]_vars

\* C25 witness: the popup was acknowledged and a result with isOda is still
\* shown for full pincodes, with the popup closed
C25_Witness ==
  /\ odaAcknowledged /\ ~showOdaPopup
  /\ result # null /\ isOda
  /\ Len(pickup.pincode) >= 6 /\ Len(drop.pincode) >= 6
  /\ weight # <<>>

\* the columns of an uploaded table: the postal code, and the two
\* availability columns (0 when the header has none)
ColumnsOf(table) ==
  IF table = TableMixed THEN [pin |-> 1, pick |-> 2, del |-> 3]
  ELSE [pin |-> 1, pick |-> 0, del |-> 0]

\* a cell without its padding and quotes
Clean(cell) == removeQuotes(trim(cell))

IsAllDigits(cell) ==
  /\ cell # <<>>
  /\ \A i \in 1..Len(cell) : cell[i] \in {"0", "1", "2", "3", "4", "5", "6", "7", "8", "9"}

\* the data rows whose postal-code cell is non-empty and all digits
AcceptedRows(table) ==
  {i \in 2..Len(table) :
     /\ Len(table[i]) >= ColumnsOf(table).pin
     /\ IsAllDigits(Clean(table[i][ColumnsOf(table).pin]))}

PincodeOfRow(table, i) == Clean(table[i][ColumnsOf(table).pin])

\* the column is absent, or the row's cell is Y, YES or TRUE in any case
SaysYes(row, col) ==
  \/ col = 0
  \/ /\ col <= Len(row)
     /\ toLowerCase(Clean(row[col])) \in {<<"y">>, <<"y", "e", "s">>, <<"t", "r", "u", "e">>}

\* the map and the count are what the claim says of this table: the accepted
\* rows are counted, their pincodes are the keys, and each key has the
\* availability flags of its last accepted row
IngestedAs(table, map, count) ==
  /\ count = Cardinality(AcceptedRows(table))
  /\ DOMAIN map = {PincodeOfRow(table, i) : i \in AcceptedRows(table)}
  /\ \A i \in AcceptedRows(table) :
       (\A j \in AcceptedRows(table) :
          PincodeOfRow(table, j) = PincodeOfRow(table, i) => j <= i) =>
         /\ map[PincodeOfRow(table, i)].pickupAvailable
              = SaysYes(table[i], ColumnsOf(table).pick)
         /\ map[PincodeOfRow(table, i)].deliveryAvailable
              = SaysYes(table[i], ColumnsOf(table).del)

\* C21: a completed upload holds exactly the rows whose postal-code cell is
\* non-empty and all digits, the other rows being skipped without an error;
\* pickupAvailable / deliveryAvailable of a row is true when the header has no
\* such column, and otherwise exactly when the cell is Y, YES or TRUE in any
\* letter case.
C21_AcceptedRowsAndFlags ==
  uploadStatus = "success" =>
    \E table \in UploadTables \ {TableNoPin} :
      IngestedAs(table, Val(localSettings.serviceabilityMap), recordCount)

\* C21 witness: the table with malformed rows was ingested: 4 of its 7 data
\* rows are counted, under 3 pincodes
C21_Witness ==
  /\ uploadStatus = "success"
  /\ recordCount = 4
  /\ IngestedAs(TableMixed, Val(localSettings.serviceabilityMap), recordCount)
  /\ DOMAIN Val(localSettings.serviceabilityMap) = {<<"1", "1", "0", "0", "0", "1">>, <<"4", "0", "0", "0", "0", "1">>, <<"5", "6", "0", "0", "0", "1">>}

\* C22: when the read of a table without a postal-code column fails, no map
\* is produced from it (the local copy and the saved settings stay as they
\* are) and, the modal being open, the error is shown.
C22_MissingPinColumnIsReported ==
  [][ (uploadStatus # "error" /\ uploadStatus' = "error") =>
        /\ localSettings' = localSettings
        /\ settings' = settings
        /\ isSettingsOpen' => errorShown' ]_vars

\* C24: the saved settings change only in a step that submits the form, and
\* then to the local copy; when the modal closes the local copy is the saved
\* settings again, and the modal opens with the saved settings as its local
\* copy.
C24_SettingsChangeOnlyOnSave ==
  [][ /\ settings' # settings =>
           (isSettingsOpen /\ ~isSettingsOpen' /\ settings' = localSettings)
      /\ (isSettingsOpen /\ ~isSettingsOpen') => localSettings' = settings'
      /\ (~isSettingsOpen /\ isSettingsOpen') =>
           (settings' = settings /\ localSettings' = settings) ]_vars

\* C24 witness: a file read completed after the modal was closed; its map is
\* in the local copy only, the saved settings being the defaults
C24_Witness ==
  /\ ~isSettingsOpen
  /\ uploadStatus = "success"
  /\ localSettings.serviceabilityMap # null
  /\ settings = DEFAULT_SETTINGS

\* a serviceability map without keys
EmptyMap == Some(<<>>)

\* C27: the read of a table with a postal-code column and no accepted row
\* succeeds with a map without keys and a record count of 0; while the saved
\* map has no keys, every result has pickupOda = deliveryOda = isOda = TRUE and
\* an ODA charge of at least odaMin, and the record count of a local copy
\* without keys is 0.
C27_EmptyMapIsConfigured ==
  /\ [](LET res == result IN
          /\ (settings.serviceabilityMap = EmptyMap /\ res # null) =>
               LET R == Val(res) IN
                 /\ R.pickupOda /\ R.deliveryOda /\ R.isOda
                 /\ R.odaCharge >= settings.odaMin
          /\ localSettings.serviceabilityMap = EmptyMap => recordCount = 0)
  /\ [][ reads \ reads' = {csvText(TableNoRows)} =>
           /\ uploadStatus' = "success"
           /\ localSettings'.serviceabilityMap = EmptyMap
           /\ recordCount' = 0 ]_vars

\* C27 witness: the map without keys was saved and a result is shown whose ODA
\* charge exceeds odaMin, the modal counting 0 records
C27_Witness ==
  /\ settings.serviceabilityMap = EmptyMap
  /\ recordCount = 0
  /\ result # null
  /\ Val(result).isOda /\ Val(result).odaCharge > settings.odaMin

\* C23: each location input has at most one pending timer, which holds the
\* input's current pincode; debouncedPincode changes only to the pincode of a
\* timer that fired, the current pincode; and city and state are only filled
\* from the record of debouncedPincode.
C23_DebouncedLookup ==
  /\ [](\A label \in Labels :
          /\ Cardinality(timers[label]) <= 1
          /\ \A pincode \in timers[label] : pincode = valueOf(label).pincode)
  /\ [][ \A label \in Labels :
           /\ debouncedPincode'[label] # debouncedPincode[label] =>
                /\ debouncedPincode'[label] \in timers[label]
                /\ debouncedPincode'[label] = valueOf(label).pincode
                /\ debouncedPincode'[label] = valueOf(label)'.pincode
           /\ (valueOf(label)'.city # valueOf(label).city
                 /\ valueOf(label)'.city # <<>>) =>
                /\ settings'.serviceabilityMap # null
                /\ debouncedPincode'[label] \in DOMAIN Val(settings'.serviceabilityMap)
                /\ valueOf(label)'.city =
                     Val(settings'.serviceabilityMap)[debouncedPincode'[label]].city ]_vars

\* C23 witness: 110001 was typed after another pincode and looked up once its
\* timer fired; no timer is pending
C23_Witness ==
  /\ timers[PICKUP] = {}
  /\ debouncedPincode[PICKUP] = <<"1", "1", "0", "0", "0", "1">>
  /\ pickup.pincode = <<"1", "1", "0", "0", "0", "1">>
  /\ pickup.city = <<"N", "e", "w", " ", "D", "e", "l", "h", "i">>
  /\ debouncedPincode[DESTINATION] = <<"4", "0", "0", "0", "0", "1">>

====
